---- MODULE Spec2Model ----
(***************************************************************************)
(* Model of the result-normalisation layer of simplecrawl:                 *)
(* app/services/scraper.py, ScraperService._process_formats with the       *)
(* helpers it awaits, _take_screenshot and _extract_structured_data        *)
(* (specification Spec), and one POST /v1/scrape from the endpoint of      *)
(* app/api/v1/scrape.py through ScraperService.scrape_url and the action   *)
(* sequencer _execute_actions to the HTTP response (specification          *)
(* SpecRequest).                                                           *)
(*                                                                         *)
(* Python values are tagged tuples, so that None, "", [] and {} stay       *)
(* distinct; an attribute of a duck-typed object is either Absent          *)
(* (hasattr is False), Raises(e) (evaluating it raises e, which hasattr    *)
(* lets through unless it is AttributeError) or a value.  Format strings   *)
(* are sequences of tokens ("screenshot@fullPage" is                       *)
(* <<"screenshot", "@fullPage">>) so that startswith and `in` are          *)
(* computed, not tabulated.                                                *)
(***************************************************************************)
EXTENDS Integers, Sequences, FiniteSets, TLC

VARIABLES
    result,          \* the engine's CrawlResult handed to _process_formats
    options,         \* ScrapeOptions: formats, json_options
    action_results,  \* Optional[ActionResult] from the action sequencer
    engine,          \* how AsyncWebCrawler answers (fixed for one request)
    pc,              \* position in _process_formats: "metadata", "formats",
                     \* "returned" (return data) or "handled" (the return
                     \* of the top-level except block)
    i,               \* index of the next entry of options.formats
    data,            \* the local ScrapedData under construction
    ret,             \* how _process_formats ended: kind, value
    log,             \* engine calls made so far, in order
    answers,         \* how the sessions of one request answer: the page
                     \* session of the sequencer, one per action, the main one
    next_action,     \* index of the next entry of the action list
    outcome,         \* the local ActionResult of _execute_actions
    steps,           \* what each executed action did, in execution order
    service,         \* the scraper the endpoint was given
    service_result,  \* what scraper.scrape_url returned or raised
    response         \* the HTTP response of the endpoint

request_vars ==
    <<answers, next_action, outcome, steps, service, service_result,
      response>>

vars == <<result, options, action_results, engine, pc, i, data, ret, log,
          answers, next_action, outcome, steps, service, service_result,
          response>>

-----------------------------------------------------------------------------
(* Bounds of the model *)

MaxFormats == 2

-----------------------------------------------------------------------------
(* Python values *)

None == <<"None">>
Absent == <<"absent">>
Raises(e) == <<"raises", e>>
Ok(v) == <<"ok", v>>
Str(s) == <<"str", s>>
Bytes(b) == <<"bytes", b>>
PyInt(n) == <<"int", n>>
List(l) == <<"list", l>>
Dict(d) == <<"dict", d>>
Method(m) == <<"method", m>>
PyBool(b) == <<"bool", b>>

Tag(v) == v[1]
IsRaise(v) == Tag(v) = "raises"
IsOk(v) == Tag(v) = "ok"
Val(v) == v[2]

\* bool(v)
Truthy(v) ==
    CASE Tag(v) = "None" -> FALSE
      [] Tag(v) = "bool" -> v[2]
      [] Tag(v) = "str" -> v[2] # ""
      [] Tag(v) = "bytes" -> v[2] # ""
      [] Tag(v) = "int" -> v[2] # 0
      [] Tag(v) = "list" -> Len(v[2]) > 0
      [] Tag(v) = "dict" -> Len(v[2]) > 0
      [] OTHER -> TRUE

\* key in d, for a dict d
HasKey(d, k) == \E n \in 1..Len(d[2]) : d[2][n][1] = k

\* d.get(k, default), for a dict d
Get(d, k, default) ==
    IF HasKey(d, k)
    THEN d[2][CHOOSE n \in 1..Len(d[2]) : d[2][n][1] = k][2]
    ELSE default

\* list(d.values()): the values in insertion order, keys dropped
Values(d) == [n \in 1..Len(d[2]) |-> d[2][n][2]]

\* str(v) of the values a url accessor is given here
PyStr(v) == IF Tag(v) = "str" THEN v[2] ELSE "None"

\* s.startswith(p) and t in s, on token sequences
StartsWith(s, p) == Len(s) >= Len(p) /\ SubSeq(s, 1, Len(p)) = p
Contains(s, t) == \E n \in 1..Len(s) : s[n] = t

\* base64.b64encode(b).decode(): TypeError unless b is bytes
Base64Table ==
    [b \in {"", "png1", "png2"} |->
        CASE b = "" -> ""
          [] b = "png1" -> "cG5nMQ=="
          [] b = "png2" -> "cG5nMg=="]

b64encode(v) ==
    IF Tag(v) = "bytes" THEN Ok(Base64Table[v[2]]) ELSE Raises("TypeError")

\* one engine call, as it is written to the log
Call(op, arg) == [op |-> op, arg |-> arg]

-----------------------------------------------------------------------------
(* The pydantic models of scraper.py *)

\* ActionResult(screenshots, scrapes)
ActionResult(shots, scrapes) == <<"ActionResult", shots, scrapes>>
screenshots(a) == a[2]
scrapes(a) == a[3]

\* field types of ScrapedMetadata, as pydantic validates them
OptionalStr(v) == v = None \/ Tag(v) = "str"
OptionalListStr(v) == v = None \/ Tag(v) = "list"
ListStr(v) == Tag(v) = "list"

\* ScrapedMetadata(**m): ValidationError unless every field has its type
ScrapedMetadata(m) ==
    IF /\ OptionalStr(m.title) /\ OptionalStr(m.description)
       /\ OptionalStr(m.language) /\ OptionalListStr(m.keywords)
       /\ OptionalStr(m.robots) /\ OptionalStr(m.og_title)
       /\ OptionalStr(m.og_description) /\ OptionalStr(m.og_url)
       /\ OptionalStr(m.og_image) /\ ListStr(m.og_locale_alternate)
       /\ OptionalStr(m.og_site_name)
    THEN Ok(m)
    ELSE Raises("ValidationError")

\* ScrapedData(metadata=m): every other field at its default
ScrapedData(m) ==
    [markdown |-> None, html |-> None, raw_html |-> None, screenshot |-> None,
     links |-> None, json |-> None, metadata |-> m, actions |-> None]

\* ScrapedData(metadata=ScrapedMetadata(source_url="", status_code=500))
MinimalRecord ==
    ScrapedData(
        [title |-> None, description |-> None, language |-> None,
         keywords |-> None, robots |-> None, og_title |-> None,
         og_description |-> None, og_url |-> None, og_image |-> None,
         og_locale_alternate |-> List(<<>>), og_site_name |-> None,
         source_url |-> "", status_code |-> 500])

-----------------------------------------------------------------------------
(* _process_formats, the metadata block *)

\* hasattr(obj, name), given the attribute: an exception other than
\* AttributeError raised by the attribute comes out of hasattr
hasattr(attr) == IF IsRaise(attr) THEN attr ELSE Ok(attr # Absent)

\* metadata = {}, replaced by result.metadata when that is there and not None
MetadataMapping(res) ==
    IF ~res.present THEN Ok(Dict(<<>>))
    ELSE IF IsRaise(hasattr(res.metadata)) THEN res.metadata
    ELSE IF res.metadata # Absent /\ res.metadata # None THEN Ok(res.metadata)
    ELSE Ok(Dict(<<>>))

\* source_url = "", replaced by str(result.url) when the result has a url
SourceUrl(res) ==
    IF ~res.present THEN Ok("")
    ELSE IF IsRaise(hasattr(res.url)) THEN res.url
    ELSE IF res.url # Absent THEN Ok(PyStr(res.url))
    ELSE Ok("")

\* the result's status code is never read
StatusCode_Default(res) == 200

\* status_code = 200, replaced by result.status_code when that is an int
StatusCode(res) ==
    IF res.present /\ res.status_code # Absent /\ Tag(res.status_code) = "int"
    THEN Val(res.status_code)
    ELSE 200

\* the mapping is never read: every field is left at its default
MetaField_Unread(metadata, key, default) == default

\* metadata.get(key, default) if hasattr(metadata, 'get') else default
MetaField(metadata, key, default) ==
    IF Tag(metadata) = "dict" THEN Get(metadata, key, default) ELSE default

\* data = ScrapedData(metadata=ScrapedMetadata(...)): Ok(data) or the
\* exception raised on the way
AssembleData(res) ==
    LET md == MetadataMapping(res)
        su == SourceUrl(res)
    IN  IF IsRaise(md) THEN md
        ELSE IF IsRaise(su) THEN su
        ELSE
          LET m == Val(md)
              sm == ScrapedMetadata(
                  [source_url |-> Val(su),
                   status_code |-> StatusCode(res),
                   title |-> MetaField(m, "title", None),
                   description |-> MetaField(m, "description", None),
                   language |-> MetaField(m, "language", None),
                   keywords |-> MetaField(m, "keywords", List(<<>>)),
                   robots |-> MetaField(m, "robots", None),
                   og_title |-> MetaField(m, "og:title", None),
                   og_description |-> MetaField(m, "og:description", None),
                   og_url |-> MetaField(m, "og:url", None),
                   og_image |-> MetaField(m, "og:image", None),
                   og_site_name |-> MetaField(m, "og:site_name", None),
                   og_locale_alternate |->
                       MetaField(m, "og:locale:alternate", List(<<>>))])
          IN  IF IsRaise(sm) THEN sm ELSE Ok(ScrapedData(Val(sm)))

-----------------------------------------------------------------------------
(* _take_screenshot *)

\* await m(..., full_page=full_page), for a screenshot method m of the engine
Invoke(m, full_page) == IF full_page THEN Val(m).full ELSE Val(m).viewport

FullPageArg(full_page) == IF full_page THEN "full_page=True" ELSE "full_page=False"

\* the first try block: crawler.screenshot(url, full_page=full_page);
\* returned is whether the function returns from inside it
PrimaryScreenshot(full_page, eng) ==
    IF eng.crawler_screenshot = Absent
    THEN [returned |-> FALSE, value |-> "", calls |-> <<>>]
    ELSE
      LET shot == Invoke(eng.crawler_screenshot, full_page)
          c == <<Call("crawler.screenshot", FullPageArg(full_page))>>
      IN  IF ~IsRaise(shot) /\ Truthy(shot) /\ IsOk(b64encode(shot))
          THEN [returned |-> TRUE, value |-> Val(b64encode(shot)), calls |-> c]
          ELSE [returned |-> FALSE, value |-> "", calls |-> c]

\* the second try block: crawler.arun(url), then the result's screenshot,
\* called when it is callable and read otherwise
ResultScreenshot(full_page, eng) ==
    LET c == <<Call("crawler.arun", "_take_screenshot")>>
    IN  IF eng.arun = "raises" \/ eng.page_screenshot = Absent
           \/ IsRaise(eng.page_screenshot)
        THEN [returned |-> FALSE, value |-> "", calls |-> c]
        ELSE IF Tag(eng.page_screenshot) = "method"
        THEN
          LET shot == Invoke(eng.page_screenshot, full_page)
              cc == c \o <<Call("result.screenshot", FullPageArg(full_page))>>
          IN  IF ~IsRaise(shot) /\ IsOk(b64encode(shot))
              THEN [returned |-> TRUE, value |-> Val(b64encode(shot)), calls |-> cc]
              ELSE [returned |-> FALSE, value |-> "", calls |-> cc]
        ELSE
          IF IsOk(b64encode(eng.page_screenshot))
          THEN [returned |-> TRUE, value |-> Val(b64encode(eng.page_screenshot)),
                calls |-> c]
          ELSE [returned |-> FALSE, value |-> "", calls |-> c]

\* _take_screenshot(url, full_page): the string returned and the calls made;
\* every exception ends in return ""
_take_screenshot(url, full_page, eng) ==
    IF eng.open = "raises"
    THEN [value |-> "", calls |-> <<Call("open_failed", "_take_screenshot")>>]
    ELSE
      LET first == PrimaryScreenshot(full_page, eng)
          second == ResultScreenshot(full_page, eng)
          opened == <<Call("open", "_take_screenshot")>>
          closed == <<Call("close", "_take_screenshot")>>
      IN  IF first.returned
          THEN [value |-> first.value, calls |-> opened \o first.calls \o closed]
          ELSE [value |-> second.value,
                calls |-> opened \o first.calls \o second.calls \o closed]

-----------------------------------------------------------------------------
(* _extract_structured_data *)

\* a branch whose except block returns None
ExtractBranch_ReturnsNone(own, crawlers, own_name, crawler_name, key, eng) ==
    IF own # Absent
    THEN [value |-> IF IsRaise(own) THEN None ELSE own,
          calls |-> <<Call(own_name, key)>>]
    ELSE [value |-> IF eng.open = "raises" \/ crawlers = Absent
                       \/ IsRaise(crawlers)
                    THEN None ELSE crawlers,
          calls |-> <<>>]

\* one branch of the extraction: the result's own method when it has one,
\* else the method of a new crawler, given the result's content; any
\* exception ends in return {}
ExtractBranch(own, crawlers, own_name, crawler_name, key, eng) ==
    IF own # Absent
    THEN [value |-> IF IsRaise(own) THEN Dict(<<>>) ELSE own,
          calls |-> <<Call(own_name, key)>>]
    ELSE IF eng.open = "raises"
    THEN [value |-> Dict(<<>>),
          calls |-> <<Call("open_failed", "_extract_structured_data")>>]
    ELSE IF crawlers = Absent
    THEN [value |-> Dict(<<>>),
          calls |-> <<Call("open", "_extract_structured_data"),
                      Call("close", "_extract_structured_data")>>]
    ELSE [value |-> IF IsRaise(crawlers) THEN Dict(<<>>) ELSE crawlers,
          calls |-> <<Call("open", "_extract_structured_data"),
                      Call(crawler_name, key),
                      Call("close", "_extract_structured_data")>>]

\* the extraction with prompt checked before schema
_extract_structured_data_PromptFirst(res, json_options, eng) ==
    IF ~res.present \/ res.content = Absent
    THEN [value |-> Dict(<<>>), calls |-> <<>>]
    ELSE IF ~Truthy(json_options)
    THEN [value |-> Dict(<<>>), calls |-> <<>>]
    ELSE IF HasKey(json_options, "prompt")
    THEN ExtractBranch(res.extract_with_prompt, eng.extract_with_prompt,
                       "result.extract_with_prompt",
                       "crawler.extract_with_prompt", "prompt", eng)
    ELSE IF HasKey(json_options, "schema")
    THEN ExtractBranch(res.extract_structured, eng.extract_structured,
                       "result.extract_structured",
                       "crawler.extract_structured", "schema", eng)
    ELSE [value |-> Dict(<<>>), calls |-> <<>>]

\* _extract_structured_data(result, json_options): the mapping returned and
\* the calls made
_extract_structured_data(res, json_options, eng) ==
    IF ~res.present \/ res.content = Absent
    THEN [value |-> Dict(<<>>), calls |-> <<>>]
    ELSE IF ~Truthy(json_options)
    THEN [value |-> Dict(<<>>), calls |-> <<>>]
    ELSE IF HasKey(json_options, "schema")
    THEN ExtractBranch(res.extract_structured, eng.extract_structured,
                       "result.extract_structured",
                       "crawler.extract_structured", "schema", eng)
    ELSE IF HasKey(json_options, "prompt")
    THEN ExtractBranch(res.extract_with_prompt, eng.extract_with_prompt,
                       "result.extract_with_prompt",
                       "crawler.extract_with_prompt", "prompt", eng)
    ELSE [value |-> Dict(<<>>), calls |-> <<>>]

-----------------------------------------------------------------------------
(* _process_formats, the rule of each format: Ok of the record and the      *)
(* engine calls made, or the exception that leaves the loop                 *)

Step(d, calls) == Ok([data |-> d, calls |-> calls])

\* the markdown rule reading only result.markdown
MarkdownRule_NoFallback(d, res) ==
    IF IsRaise(hasattr(res.markdown)) THEN res.markdown
    ELSE IF res.markdown # Absent
    THEN Step([d EXCEPT !.markdown = res.markdown], <<>>)
    ELSE Step(d, <<>>)

\* result.markdown when the result has it, else result.to_markdown()
MarkdownRule(d, res) ==
    IF IsRaise(hasattr(res.markdown)) THEN res.markdown
    ELSE IF res.markdown # Absent
    THEN Step([d EXCEPT !.markdown = res.markdown], <<>>)
    ELSE IF IsRaise(res.to_markdown) THEN res.to_markdown
    ELSE IF res.to_markdown # Absent
    THEN Step([d EXCEPT !.markdown = res.to_markdown], <<>>)
    ELSE Step(d, <<>>)

\* result.content when the result has it, else result.html
HtmlRule(d, res) ==
    IF res.content # Absent THEN Step([d EXCEPT !.html = res.content], <<>>)
    ELSE IF res.html # Absent THEN Step([d EXCEPT !.html = res.html], <<>>)
    ELSE Step(d, <<>>)

\* the rawHtml rule, writing the html field
RawHtmlRule_WritesHtml(d, res) ==
    IF res.raw_content # Absent
    THEN Step([d EXCEPT !.html = res.raw_content], <<>>)
    ELSE IF res.raw_html # Absent
    THEN Step([d EXCEPT !.html = res.raw_html], <<>>)
    ELSE Step(d, <<>>)

\* result.raw_content when the result has it, else result.raw_html
RawHtmlRule(d, res) ==
    IF res.raw_content # Absent
    THEN Step([d EXCEPT !.raw_html = res.raw_content], <<>>)
    ELSE IF res.raw_html # Absent
    THEN Step([d EXCEPT !.raw_html = res.raw_html], <<>>)
    ELSE Step(d, <<>>)

\* the links value without the default for a result that has no links
LinksValue_NoDefault(links) ==
    IF links = Absent THEN None
    ELSE IF Tag(links) = "dict"
    THEN (IF Truthy(links) THEN List(Values(links)) ELSE List(<<>>))
    ELSE (IF Truthy(links) THEN links ELSE List(<<>>))

\* the value given to data.links
LinksValue(links) ==
    IF links = Absent THEN List(<<>>)
    ELSE IF Tag(links) = "dict"
    THEN (IF Truthy(links) THEN List(Values(links)) ELSE List(<<>>))
    ELSE (IF Truthy(links) THEN links ELSE List(<<>>))

LinksRule(d, res) ==
    IF IsRaise(hasattr(res.links)) THEN res.links
    ELSE Step([d EXCEPT !.links = LinksValue(res.links)], <<>>)

\* the guard of the screenshot rule without the precedence of the actions
NoActionScreenshot_Always(ar) == TRUE

\* not (action_results and action_results.screenshots)
NoActionScreenshot(ar) == ~(ar # None /\ Len(screenshots(ar)) > 0)

\* full_page="@fullPage" in fmt
FullPage(fmt) == Contains(fmt, "@fullPage")

ScreenshotRule(d, fmt, ar, eng) ==
    IF NoActionScreenshot(ar)
    THEN LET shot == _take_screenshot(d.metadata.source_url, FullPage(fmt), eng)
         IN  Step([d EXCEPT !.screenshot = Str(shot.value)],
                  <<Call("_take_screenshot", FullPageArg(FullPage(fmt)))>>
                      \o shot.calls)
    ELSE Step(d, <<>>)

JsonRule(d, res, json_options, eng) ==
    LET ex == _extract_structured_data(res, json_options, eng)
    IN  Step([d EXCEPT !.json = ex.value], ex.calls)

\* the chain with the json branch taken whatever json_options is
Branch_JsonWithoutSpec(fmt, res, json_options) ==
    IF fmt = <<"markdown">> /\ res.present THEN "markdown"
    ELSE IF fmt = <<"html">> /\ res.present THEN "html"
    ELSE IF fmt = <<"rawHtml">> /\ res.present THEN "rawHtml"
    ELSE IF fmt = <<"links">> /\ res.present THEN "links"
    ELSE IF StartsWith(fmt, <<"screenshot">>) THEN "screenshot"
    ELSE IF fmt = <<"json">> /\ res.present THEN "json"
    ELSE "none"

\* the if/elif chain of the loop body: the branch an entry of formats takes
Branch(fmt, res, json_options) ==
    IF fmt = <<"markdown">> /\ res.present THEN "markdown"
    ELSE IF fmt = <<"html">> /\ res.present THEN "html"
    ELSE IF fmt = <<"rawHtml">> /\ res.present THEN "rawHtml"
    ELSE IF fmt = <<"links">> /\ res.present THEN "links"
    ELSE IF StartsWith(fmt, <<"screenshot">>) THEN "screenshot"
    ELSE IF fmt = <<"json">> /\ Truthy(json_options) /\ res.present THEN "json"
    ELSE "none"

\* one iteration of `for fmt in options.formats`
FormatStep(d, fmt, res, json_options, ar, eng) ==
    LET b == Branch(fmt, res, json_options)
    IN  CASE b = "markdown" -> MarkdownRule(d, res)
          [] b = "html" -> HtmlRule(d, res)
          [] b = "rawHtml" -> RawHtmlRule(d, res)
          [] b = "links" -> LinksRule(d, res)
          [] b = "screenshot" -> ScreenshotRule(d, fmt, ar, eng)
          [] b = "json" -> JsonRule(d, res, json_options, eng)
          [] OTHER -> Step(d, <<>>)

\* if action_results: data.actions = action_results
AttachActions(d, ar) == IF ar # None THEN [d EXCEPT !.actions = ar] ELSE d

\* return data
Returned(d) == [kind |-> "returned", value |-> d]

\* a handler that lets the exception out of _process_formats
TopLevelFailure_Reraise(e) == [kind |-> "raised", value |-> MinimalRecord]

\* except Exception as e: return the minimal record
TopLevelFailure(e) == Returned(MinimalRecord)

Running == [kind |-> "running", value |-> MinimalRecord]

-----------------------------------------------------------------------------
(* _process_formats as a whole: the loop over options.formats from entry n  *)
(* on, then the attachment of the action outcome; what is returned and the  *)
(* engine calls made                                                        *)

RECURSIVE FormatsLoop(_, _, _, _, _, _, _)
FormatsLoop(d, calls, formats, n, res, json_options, ar_eng) ==
    IF n > Len(formats)
    THEN [ret |-> Returned(AttachActions(d, ar_eng[1])), calls |-> calls]
    ELSE
      LET st == FormatStep(d, formats[n], res, json_options,
                           ar_eng[1], ar_eng[2])
      IN  IF IsRaise(st)
          THEN [ret |-> TopLevelFailure(Val(st)), calls |-> calls]
          ELSE FormatsLoop(Val(st).data, calls \o Val(st).calls, formats,
                           n + 1, res, json_options, ar_eng)

_process_formats(res, opts, ar, eng) ==
    LET a == AssembleData(res)
    IN  IF IsRaise(a)
        THEN [ret |-> TopLevelFailure(Val(a)), calls |-> <<>>]
        ELSE FormatsLoop(Val(a), <<>>, opts.formats, 1, res,
                         opts.json_options, <<ar, eng>>)

-----------------------------------------------------------------------------
(* The inputs of one call: engine results, engine behaviours, options       *)

\* the format strings a request may carry: the seven supported ones, one
\* unknown one, and one unknown one that begins like a screenshot format
FormatNames ==
    { <<"markdown">>, <<"html">>, <<"rawHtml">>, <<"links">>, <<"json">>,
      <<"screenshot">>, <<"screenshot", "@fullPage">>,
      <<"pdf">>, <<"screenshot", "@2x">> }

FormatLists == UNION { [1..n -> FormatNames] : n \in 0..MaxFormats }

BaseResult ==
    [present |-> TRUE,
     markdown |-> Str("# Example Domain"), to_markdown |-> Absent,
     content |-> Str("<html>processed</html>"), html |-> Absent,
     raw_content |-> Str("<html>raw</html>"), raw_html |-> Absent,
     links |-> List(<<"https://example.com/page1">>),
     metadata |-> Dict(<< <<"title", Str("Example Domain")>> >>),
     status_code |-> PyInt(200), url |-> Str("https://example.com"),
     extract_structured |-> Absent, extract_with_prompt |-> Absent]

\* a falsy result (None): no attribute is ever read from it
NoResult ==
    [present |-> FALSE,
     markdown |-> Absent, to_markdown |-> Absent, content |-> Absent,
     html |-> Absent, raw_content |-> Absent, raw_html |-> Absent,
     links |-> Absent, metadata |-> Absent, status_code |-> Absent,
     url |-> Absent, extract_structured |-> Absent,
     extract_with_prompt |-> Absent]

FullMetadata ==
    Dict(<< <<"title", Str("Example Domain")>>,
            <<"description", Str("Example description")>>,
            <<"language", Str("en")>>,
            <<"keywords", List(<<"example", "domain">>)>>,
            <<"robots", Str("index, follow")>>,
            <<"og:title", Str("Example OG Title")>>,
            <<"og:description", Str("Example OG Description")>>,
            <<"og:url", Str("https://example.com")>>,
            <<"og:image", Str("https://example.com/image.jpg")>>,
            <<"og:locale:alternate", List(<<"fr_FR">>)>>,
            <<"og:site_name", Str("Example Site")>> >>)

MarkdownResults ==
    { [BaseResult EXCEPT !.markdown = m, !.to_markdown = t] :
        m \in {Absent, None, Str("# Example Domain"), Raises("markdown")},
        t \in {Absent, Str("# From to_markdown"), Raises("to_markdown")} }

HtmlResults ==
    { [BaseResult EXCEPT !.content = c, !.html = h] :
        c \in {Absent, None, Str("<html>processed</html>")},
        h \in {Absent, Str("<html>html</html>")} }

RawHtmlResults ==
    { [BaseResult EXCEPT !.raw_content = c, !.raw_html = h] :
        c \in {Absent, None, Str("<html>raw</html>")},
        h \in {Absent, Str("<html>raw_html</html>")} }

LinksResults ==
    { [BaseResult EXCEPT !.links = l] :
        l \in {Absent, None, Dict(<<>>), List(<<>>), Raises("links"),
               Dict(<< <<"b", "u2">>, <<"a", "u1">> >>),
               List(<<"u2", "u1">>)} }

MetadataResults ==
    { [BaseResult EXCEPT !.metadata = m] :
        m \in {Absent, None, Dict(<<>>), FullMetadata, List(<<"title">>),
               Dict(<< <<"keywords", Str("example, domain")>> >>),
               Raises("metadata")} }
    \cup { [BaseResult EXCEPT !.status_code = c] :
             c \in {Absent, None, PyInt(404), Str("404")} }
    \cup { [BaseResult EXCEPT !.url = u] : u \in {Absent, None, Raises("url")} }

ExtractResults ==
    { [BaseResult EXCEPT !.content = c, !.extract_structured = e[1],
                         !.extract_with_prompt = e[2]] :
        c \in {Absent, Str("<html>processed</html>")},
        e \in { <<Absent, Absent>>,
                <<Dict(<< <<"title", "by schema">> >>),
                  Dict(<< <<"title", "by prompt">> >>)>>,
                <<Raises("extract_structured"),
                  Raises("extract_with_prompt")>> } }

BaseEngine ==
    [open |-> "ok",
     crawler_screenshot |->
         Method([viewport |-> Bytes("png1"), full |-> Bytes("png2")]),
     arun |-> "ok",
     page_screenshot |-> Absent,
     extract_structured |-> Dict(<< <<"title", "crawler schema">> >>),
     extract_with_prompt |-> Dict(<< <<"title", "crawler prompt">> >>)]

ScreenshotEngines ==
    { [BaseEngine EXCEPT !.crawler_screenshot = c, !.page_screenshot = p] :
        c \in {Absent,
               Method([viewport |-> Bytes("png1"), full |-> Bytes("png2")]),
               Method([viewport |-> Bytes(""), full |-> Bytes("png2")]),
               Method([viewport |-> Raises("screenshot"),
                       full |-> Raises("screenshot")])},
        p \in {Absent, None, Bytes("png1"),
               Method([viewport |-> Bytes("png2"), full |-> Bytes("png1")]),
               Method([viewport |-> Raises("screenshot"),
                       full |-> Raises("screenshot")])} }
    \cup { [BaseEngine EXCEPT !.crawler_screenshot = Absent,
                              !.page_screenshot = Bytes("png1"),
                              !.arun = "raises"],
           [BaseEngine EXCEPT !.open = "raises"] }

ExtractEngines ==
    { BaseEngine,
      [BaseEngine EXCEPT !.open = "raises"],
      [BaseEngine EXCEPT !.extract_structured = Absent,
                         !.extract_with_prompt = Absent],
      [BaseEngine EXCEPT !.extract_structured = Raises("extract_structured"),
                         !.extract_with_prompt = Raises("extract_with_prompt")] }

JsonOptions ==
    { None, Dict(<<>>),
      Dict(<< <<"schema", "S">> >>),
      Dict(<< <<"prompt", "P">> >>),
      Dict(<< <<"prompt", "P">>, <<"schema", "S">> >>),
      Dict(<< <<"model", "M">> >>) }

ActionResults ==
    { None, ActionResult(<<>>, <<>>),
      ActionResult(<<"cG5nMQ==">>, <<>>),
      ActionResult(<<>>, << [url |-> "https://example.com", html |-> Str("")] >>) }

\* the calls checked: every engine result with the plain engine, the
\* extraction cases with every extraction spec, the capture cases with
\* every action outcome
Inputs ==
    { [result |-> r, engine |-> BaseEngine, json_options |-> j,
       action_results |-> None] :
        r \in MarkdownResults \cup HtmlResults \cup RawHtmlResults
              \cup LinksResults \cup MetadataResults \cup {NoResult},
        j \in {None, Dict(<< <<"schema", "S">> >>)} }
    \cup
    { [result |-> r, engine |-> e, json_options |-> j,
       action_results |-> None] :
        r \in ExtractResults \cup {NoResult}, e \in ExtractEngines,
        j \in JsonOptions }
    \cup
    { [result |-> r, engine |-> e, json_options |-> None,
       action_results |-> a] :
        r \in {BaseResult, NoResult}, e \in ScreenshotEngines,
        a \in ActionResults }

-----------------------------------------------------------------------------
(* The state machine: one call of _process_formats, one action per step     *)

\* the call is checked on its own: no request, no sequencer
Standalone ==
    /\ answers = None
    /\ next_action = 1
    /\ outcome = ActionResult(<<>>, <<>>)
    /\ steps = <<>>
    /\ service = None
    /\ service_result = None
    /\ response = None

Init ==
    /\ \E inp \in Inputs :
         /\ result = inp.result
         /\ engine = inp.engine
         /\ action_results = inp.action_results
         /\ \E f \in FormatLists :
              options = [formats |-> f, json_options |-> inp.json_options]
    /\ pc = "metadata"
    /\ i = 1
    /\ data = MinimalRecord
    /\ ret = Running
    /\ log = <<>>
    /\ Standalone

Inputs_unchanged ==
    UNCHANGED <<result, options, action_results, engine, request_vars>>

\* lines 201-235: the metadata block and the construction of data
AssembleRecord ==
    /\ pc = "metadata"
    /\ LET a == AssembleData(result)
       IN  IF IsRaise(a)
           THEN /\ ret' = TopLevelFailure(Val(a))
                /\ pc' = "handled"
                /\ data' = data
           ELSE /\ data' = Val(a)
                /\ pc' = "formats"
                /\ ret' = ret
    /\ UNCHANGED <<i, log>>
    /\ Inputs_unchanged

\* the loop is at an entry of formats that takes branch b of the if/elif chain
AtBranch(b) ==
    /\ pc = "formats"
    /\ i <= Len(options.formats)
    /\ Branch(options.formats[i], result, options.json_options) = b

\* the end of one iteration: the next entry, or the top-level handler
\* when the rule raised
EndIteration(st) ==
    /\ IF IsRaise(st)
       THEN /\ ret' = TopLevelFailure(Val(st))
            /\ pc' = "handled"
            /\ UNCHANGED <<data, i, log>>
       ELSE /\ data' = Val(st).data
            /\ log' = log \o Val(st).calls
            /\ i' = i + 1
            /\ UNCHANGED <<pc, ret>>
    /\ Inputs_unchanged

\* lines 239-246
FormatMarkdown ==
    /\ AtBranch("markdown")
    /\ EndIteration(MarkdownRule(data, result))

\* lines 248-255
FormatHtml ==
    /\ AtBranch("html")
    /\ EndIteration(HtmlRule(data, result))

\* lines 257-264
FormatRawHtml ==
    /\ AtBranch("rawHtml")
    /\ EndIteration(RawHtmlRule(data, result))

\* lines 266-277
FormatLinks ==
    /\ AtBranch("links")
    /\ EndIteration(LinksRule(data, result))

\* lines 279-289
FormatScreenshot ==
    /\ AtBranch("screenshot")
    /\ EndIteration(ScreenshotRule(data, options.formats[i], action_results,
                                   engine))

\* lines 291-299
FormatJson ==
    /\ AtBranch("json")
    /\ EndIteration(JsonRule(data, result, options.json_options, engine))

\* no branch of the chain matches: nothing is done for this entry
FormatIgnored ==
    /\ AtBranch("none")
    /\ EndIteration(Step(data, <<>>))

\* lines 301-305: attach the action outcome and return data
ReturnData ==
    /\ pc = "formats"
    /\ i > Len(options.formats)
    /\ data' = AttachActions(data, action_results)
    /\ ret' = Returned(data')
    /\ pc' = "returned"
    /\ UNCHANGED <<i, log>>
    /\ Inputs_unchanged

Next ==
    \/ AssembleRecord
    \/ FormatMarkdown
    \/ FormatHtml
    \/ FormatRawHtml
    \/ FormatLinks
    \/ FormatScreenshot
    \/ FormatJson
    \/ FormatIgnored
    \/ ReturnData

Spec == Init /\ [][Next]_vars

-----------------------------------------------------------------------------
(* _execute_actions, the action sequencer *)

\* PageAction(type=..., milliseconds=...); selector, text and key are never
\* read by the sequencer
PageAction(type, milliseconds) == [type |-> type, milliseconds |-> milliseconds]

\* what one AsyncWebCrawler session answers: entering it yields the session
\* or raises, and arun yields its result or raises
Session(open, arun) == [open |-> open, arun |-> arun]

\* a truthy crawl result as the scrape action reads it: its content accessor
Page(content) == <<"page", content>>

\* a session that is entered and used but not left
SessionCalls_LeftOpen(owner) ==
    <<Call("open", owner), Call("crawler.arun", owner)>>

\* the calls of a session that is entered, used for arun and left
SessionCalls(owner) ==
    <<Call("open", owner), Call("crawler.arun", owner), Call("close", owner)>>

\* the argument of asyncio.sleep, given here in milliseconds:
\* action.milliseconds / 1000 if action.milliseconds else 1
SleepArgument(action) ==
    IF Truthy(action.milliseconds) THEN Val(action.milliseconds) ELSE 1000

\* self._take_screenshot(url, full_page=False)
ActionFullPage == FALSE

\* a capture kept whatever it is
KeepScreenshot_Always(screenshot) == TRUE

\* if screenshot:
KeepScreenshot(screenshot) == screenshot # ""

\* result.screenshots.append(screenshot)
AppendScreenshot(acc, screenshot) ==
    ActionResult(Append(screenshots(acc), screenshot), scrapes(acc))

\* a record put in front of the list
AppendScrape_InFront(acc, record) ==
    ActionResult(screenshots(acc), <<record>> \o scrapes(acc))

\* a record that is not kept
AppendScrape_Dropped(acc, record) == acc

\* result.scrapes.append({"url": url, "html": ...})
AppendScrape(acc, record) ==
    ActionResult(screenshots(acc), Append(scrapes(acc), record))

\* the message of the exception a scrape session raises, None without one:
\* entering the session, arun, and the content accessor under hasattr
ScrapeError(session) ==
    IF IsRaise(session.open) THEN session.open
    ELSE IF IsRaise(session.arun) THEN session.arun
    ELSE IF Truthy(Val(session.arun)) /\ IsRaise(Val(session.arun)[2])
    THEN Val(session.arun)[2]
    ELSE None

\* f"Error: {str(e)}"
ErrorHtml(e) == Str("Error: " \o e)

\* the html of the record a scrape action appends
ScrapeHtml(session) ==
    IF ScrapeError(session) # None THEN ErrorHtml(Val(ScrapeError(session)))
    ELSE IF Truthy(Val(session.arun)) /\ Val(session.arun)[2] # Absent
    THEN Val(session.arun)[2]
    ELSE Str("")

\* the calls of the session of a scrape action
ScrapeCalls(session) ==
    IF IsRaise(session.open) THEN <<Call("open_failed", "action_crawler")>>
    ELSE SessionCalls("action_crawler")

\* what one iteration of the loop did: the entry it ran, the sleeps and the
\* engine calls it awaited, the accumulator as it found and as it left it
StepDone(slept, calls, acc) ==
    [index |-> next_action,
     type |-> Val(options.actions)[next_action].type,
     slept |-> slept, calls |-> calls, before |-> outcome, after |-> acc]
-----------------------------------------------------------------------------
(* scrape_url and the endpoint of app/api/v1/scrape.py *)

\* {"success": False, "error": error}
Failure(error) ==
    Dict(<< <<"success", PyBool(FALSE)>>, <<"error", error>> >>)

\* {"success": True, "data": scraped_data}
Success(scraped_data) ==
    Dict(<< <<"success", PyBool(TRUE)>>, <<"data", scraped_data>> >>)

\* a handler that reports the failure without its message
ExceptFailure_NoMessage(e) == Failure(Str(""))

\* except Exception as e: return {"success": False, "error": str(e)}
ExceptFailure(e) == Failure(Str(e))

\* the main crawl, lines 98-137, for the answer of its session: the
\* dictionary scrape_url returns and the calls made
MainCrawlResult(main, opts, ar, eng) ==
    IF IsRaise(main.open)
    THEN [value |-> ExceptFailure(Val(main.open)),
          calls |-> <<Call("open_failed", "scrape_url")>>]
    ELSE IF IsRaise(main.arun)
    THEN [value |-> ExceptFailure(Val(main.arun)),
          calls |-> SessionCalls("scrape_url")]
    ELSE IF ~Val(main.arun).present
    THEN [value |-> Failure(Str("Crawler returned empty result")),
          calls |-> SessionCalls("scrape_url")]
    ELSE IF main.success # Absent /\ ~Truthy(main.success)
    THEN [value |-> Failure(IF main.error_message # Absent
                            THEN main.error_message
                            ELSE Str("Unknown error")),
          calls |-> SessionCalls("scrape_url")]
    ELSE
      LET p == _process_formats(Val(main.arun), opts, ar, eng)
      IN  [value |-> Success(p.ret.value),
           calls |-> <<Call("open", "scrape_url"),
                       Call("crawler.arun", "scrape_url")>>
                     \o p.calls \o <<Call("close", "scrape_url")>>]

\* HTTPException(status_code=..., detail=...)
HTTPException(status_code, detail) ==
    [status_code |-> status_code, detail |-> detail]

\* str(e) of an HTTPException: "<status_code>: <detail>"
HTTPExceptionStr(e) == ToString(e.status_code) \o ": " \o PyStr(e.detail)

\* the try block of the endpoint, lines 86-112: Ok(result) when it returns
\* and the HTTPException when it raises one
EndpointTry(res) ==
    IF ~Truthy(res)
    THEN Raises(HTTPException(500,
                    Str("Failed to get response from scraper service")))
    ELSE IF Tag(res) = "dict"
    THEN IF ~Truthy(Get(res, "success", PyBool(FALSE)))
         THEN Raises(HTTPException(500, Get(res, "error", Str("Unknown error"))))
         ELSE Ok(res)
    ELSE Raises(HTTPException(500,
                    Str("Invalid response format from scraper service")))

\* except Exception as e: raise HTTPException(status_code=500, detail=str(e))
\* for an HTTPException raised in the try block
EndpointExcept(e) == HTTPException(500, Str(HTTPExceptionStr(e)))

\* what the client receives: the returned dictionary with 200, or the
\* status code and {"detail": ...} of the HTTPException that left the endpoint
HttpOk(res) == [status_code |-> 200, json |-> res]
HttpError(e) ==
    [status_code |-> e.status_code, json |-> Dict(<< <<"detail", e.detail>> >>)]

\* the endpoint after scraper.scrape_url returned res or raised
Endpoint(res) ==
    IF IsRaise(res)
    THEN HttpError(HTTPException(500, Str(Val(res))))
    ELSE IF IsRaise(EndpointTry(res))
    THEN HttpError(EndpointExcept(Val(EndpointTry(res))))
    ELSE HttpOk(Val(EndpointTry(res)))
-----------------------------------------------------------------------------
(* The inputs of one request *)

MaxActions == 3

Url == "https://example.com"

ScraperService == <<"ScraperService">>
\* a scraper whose scrape_url is a mock with this return value or side effect
MockService(return_value) == <<"MockService", return_value>>

GoodSession == Session(Ok("crawler"), Ok(Page(Absent)))

\* the sessions of the scrape actions
ScrapeSessions ==
    { Session(Raises("Browser closed"), Ok(None)),
      Session(Ok("crawler"), Raises("Connection error")),
      Session(Ok("crawler"), Ok(None)),
      GoodSession,
      Session(Ok("crawler"), Ok(Page(None))),
      Session(Ok("crawler"), Ok(Page(Str("<html>after</html>")))) }

\* the engines of the screenshot actions: two that capture, one whose
\* capture yields nothing, one whose captures raise, one whose session
\* cannot be entered
CaptureEngines ==
    { BaseEngine,
      [BaseEngine EXCEPT !.crawler_screenshot = Absent,
                         !.page_screenshot = Bytes("png2")],
      [BaseEngine EXCEPT !.crawler_screenshot =
           Method([viewport |-> Bytes(""), full |-> Bytes("png2")])],
      [BaseEngine EXCEPT !.crawler_screenshot =
           Method([viewport |-> Raises("screenshot"),
                   full |-> Raises("screenshot")]),
                         !.page_screenshot =
           Method([viewport |-> Raises("screenshot"),
                   full |-> Raises("screenshot")])],
      [BaseEngine EXCEPT !.open = "raises"] }

\* an entry of the action list with the session it will be given
Item(action, session) == [action |-> action, session |-> session]

ActionItems ==
    { Item(PageAction("wait", ms), None) :
        ms \in {None, PyInt(0), PyInt(2000)} }
    \cup { Item(PageAction(t, None), None) :
             t \in {"click", "write", "press", "hover"} }
    \cup { Item(PageAction("screenshot", None), e) : e \in CaptureEngines }
    \cup { Item(PageAction("scrape", None), s) : s \in ScrapeSessions }

\* one action of each kind, with a scrape that fails
CoreItems ==
    { Item(PageAction("wait", PyInt(2000)), None),
      Item(PageAction("click", None), None),
      Item(PageAction("screenshot", None), BaseEngine),
      Item(PageAction("scrape", None),
           Session(Ok("crawler"), Ok(Page(Str("<html>after</html>"))))),
      Item(PageAction("scrape", None),
           Session(Ok("crawler"), Raises("Connection error"))) }

\* the action lists: every list of up to two items, and every list of two
\* items continued with core items up to MaxActions entries
ItemLists ==
    UNION { [1..n -> ActionItems] : n \in 0..2 }
    \cup
    { head \o tail :
        head \in [1..2 -> ActionItems],
        tail \in UNION { [1..n -> CoreItems] : n \in 1..(MaxActions - 2) } }

\* the action list of a request and the sessions of its actions
ActionsOf(items) == List([n \in DOMAIN items |-> items[n].action])
SessionsOf(items) == [n \in DOMAIN items |-> items[n].session]

\* the main crawl: the session, and the success and error_message
\* attributes of its result
MainSession(open, arun, success, error_message) ==
    [open |-> open, arun |-> arun, success |-> success,
     error_message |-> error_message]

GoodCrawl == MainSession(Ok("crawler"), Ok(BaseResult), PyBool(TRUE), Absent)

MainSessions ==
    { GoodCrawl,
      MainSession(Raises("Browser closed"), Ok(NoResult), Absent, Absent),
      MainSession(Ok("crawler"), Raises("Connection error"), Absent, Absent),
      MainSession(Ok("crawler"), Ok(NoResult), Absent, Absent),
      MainSession(Ok("crawler"), Ok(BaseResult), PyBool(FALSE),
                  Str("Navigation timeout")),
      MainSession(Ok("crawler"), Ok(BaseResult), PyBool(FALSE), Absent),
      MainSession(Ok("crawler"), Ok(BaseResult), Absent, Absent),
      MainSession(Ok("crawler"),
                  Ok([BaseResult EXCEPT !.markdown = Absent,
                                        !.to_markdown = Raises("to_markdown")]),
                  PyBool(TRUE), Absent),
      MainSession(Ok("crawler"),
                  Ok([BaseResult EXCEPT !.url = Raises("url")]),
                  PyBool(TRUE), Absent) }

\* what a mocked scrape_url gives the endpoint
MockOutcomes ==
    { None, Dict(<<>>), Str("done"), List(<<"done">>),
      Raises("Service unavailable"),
      Success(MinimalRecord),
      Failure(Str("Connection error")),
      Dict(<< <<"success", PyBool(FALSE)>> >>),
      Dict(<< <<"data", MinimalRecord>> >>) }

Request(formats, items, page, main, svc) ==
    [formats |-> formats, items |-> items, page |-> page, main |-> main,
     service |-> svc, json_options |-> None, engine |-> BaseEngine]

\* a request for structured extraction, without actions: the extraction
\* spec, the result of the main crawl and the engine of the new crawler
ExtractRequest(formats, json_options, res, eng) ==
    [formats |-> formats, items |-> <<>>, page |-> GoodSession,
     main |-> MainSession(Ok("crawler"), Ok(res), PyBool(TRUE), Absent),
     service |-> ScraperService, json_options |-> json_options,
     engine |-> eng]

\* the requests checked: every action list with every session of its
\* actions; a page session that fails; every main crawl, with and without
\* actions; every format list; every mocked scraper; every structured
\* extraction
Requests ==
    { Request(<< <<"markdown">> >>, a, GoodSession, GoodCrawl,
              ScraperService) : a \in ItemLists }
    \cup
    { Request(<< <<"markdown">> >>, a, p, GoodCrawl, ScraperService) :
        a \in { it \in ItemLists : Len(it) = 1 },
        p \in { Session(Raises("Browser closed"), Ok(None)),
                Session(Ok("crawler"), Raises("Connection error")) } }
    \cup
    { Request(<< <<"markdown">> >>, a, GoodSession, m, ScraperService) :
        a \in { it \in ItemLists :
                  \/ Len(it) = 0
                  \/ /\ Len(it) = 2
                     /\ it[1].action.type = "screenshot"
                     /\ it[1].session = BaseEngine
                     /\ it[2].action.type = "scrape" },
        m \in MainSessions }
    \cup
    { Request(f, <<>>, GoodSession, GoodCrawl, ScraperService) :
        f \in FormatLists }
    \cup
    { Request(<< <<"markdown">> >>, <<>>, GoodSession, GoodCrawl,
              MockService(r)) : r \in MockOutcomes }
    \cup
    { ExtractRequest(f, j, r, e) :
        f \in { << <<"json">> >>, << <<"json">>, <<"screenshot">> >> },
        j \in JsonOptions, r \in ExtractResults, e \in ExtractEngines }
-----------------------------------------------------------------------------
(* The state machine of one request: POST /v1/scrape                        *)

InitRequest ==
    /\ \E req \in Requests :
         /\ \E a \in IF req.items = <<>>
                     THEN {None, List(<<>>)}
                     ELSE {ActionsOf(req.items)} :
              options = [formats |-> req.formats,
                         json_options |-> req.json_options,
                         actions |-> a]
         /\ answers = [page |-> req.page, steps |-> SessionsOf(req.items),
                       main |-> req.main]
         /\ service = req.service
         /\ engine = req.engine
    /\ result = NoResult
    /\ action_results = None
    /\ pc = "endpoint"
    /\ i = 1
    /\ data = MinimalRecord
    /\ ret = Running
    /\ log = <<>>
    /\ next_action = 1
    /\ outcome = ActionResult(<<>>, <<>>)
    /\ steps = <<>>
    /\ service_result = None
    /\ response = None

Request_unchanged == UNCHANGED <<options, engine, answers, service, i>>

\* scrape.py 86-94: the endpoint awaits the scrape_url of ScraperService
CallScraper ==
    /\ pc = "endpoint"
    /\ service = ScraperService
    /\ pc' = "scrape_url"
    /\ UNCHANGED <<result, action_results, data, ret, log, next_action,
                   outcome, steps, service_result, response>>
    /\ Request_unchanged

\* scrape.py 86-94: the endpoint awaits the scrape_url of a mock
CallMock ==
    /\ pc = "endpoint"
    /\ service # ScraperService
    /\ service_result' = service[2]
    /\ pc' = "respond"
    /\ UNCHANGED <<result, action_results, data, ret, log, next_action,
                   outcome, steps, response>>
    /\ Request_unchanged

\* scraper.py 74-96 and 145: scrape_url up to the sequencer, entered only
\* with a truthy action list
BeginScrape ==
    /\ pc = "scrape_url"
    /\ pc' = IF Truthy(options.actions) THEN "page" ELSE "crawl"
    /\ UNCHANGED <<result, action_results, data, ret, log, next_action,
                   outcome, steps, service_result, response>>
    /\ Request_unchanged

\* a handler that returns nothing
SequencerFailure_ReturnsNone(acc) == None

\* scraper.py 190-192: except Exception: return result
SequencerFailure(acc) == acc

\* scraper.py 147-150 and 190-192: the page session of the sequencer; when
\* it fails the accumulator is returned as it is
OpenPage ==
    /\ pc = "page"
    /\ IF IsRaise(answers.page.open)
       THEN /\ log' = log \o <<Call("open_failed", "_execute_actions")>>
            /\ action_results' = SequencerFailure(outcome)
            /\ pc' = "crawl"
       ELSE IF IsRaise(answers.page.arun)
       THEN /\ log' = log \o SessionCalls("_execute_actions")
            /\ action_results' = SequencerFailure(outcome)
            /\ pc' = "crawl"
       ELSE /\ log' = log \o <<Call("open", "_execute_actions"),
                               Call("crawler.arun", "_execute_actions")>>
            /\ action_results' = action_results
            /\ pc' = "actions"
    /\ UNCHANGED <<result, data, ret, next_action, outcome, steps,
                   service_result, response>>
    /\ Request_unchanged

\* the loop is at an action of this type
AtAction(types) ==
    /\ pc = "actions"
    /\ next_action <= Len(Val(options.actions))
    /\ Val(options.actions)[next_action].type \in types

\* the end of one iteration of the loop
EndAction(slept, calls, acc) ==
    /\ outcome' = acc
    /\ steps' = Append(steps, StepDone(slept, calls, acc))
    /\ log' = log \o calls
    /\ next_action' = next_action + 1
    /\ UNCHANGED <<result, action_results, pc, data, ret, service_result,
                   response>>
    /\ Request_unchanged

\* scraper.py 154-156
WaitAction ==
    /\ AtAction({"wait"})
    /\ EndAction(<<SleepArgument(Val(options.actions)[next_action])>>, <<>>,
                 outcome)

\* scraper.py 157-164
ScreenshotAction ==
    /\ AtAction({"screenshot"})
    /\ LET shot == _take_screenshot(Url, ActionFullPage,
                                    answers.steps[next_action])
           calls == <<Call("_take_screenshot", FullPageArg(ActionFullPage))>>
                        \o shot.calls
       IN  EndAction(<<>>, calls,
                     IF KeepScreenshot(shot.value)
                     THEN AppendScreenshot(outcome, shot.value)
                     ELSE outcome)

\* scraper.py 165-185
ScrapeAction ==
    /\ AtAction({"scrape"})
    /\ LET session == answers.steps[next_action]
           record == [url |-> Url, html |-> ScrapeHtml(session)]
       IN  EndAction(<<>>, ScrapeCalls(session),
                     AppendScrape(outcome, record))

\* scraper.py 186-187: every other type is logged and skipped
UnsupportedAction ==
    /\ pc = "actions"
    /\ next_action <= Len(Val(options.actions))
    /\ Val(options.actions)[next_action].type
           \notin {"wait", "screenshot", "scrape"}
    /\ EndAction(<<>>, <<>>, outcome)

\* scraper.py 189: the page session is left and the accumulator returned
ReturnOutcome ==
    /\ pc = "actions"
    /\ next_action > Len(Val(options.actions))
    /\ log' = log \o <<Call("close", "_execute_actions")>>
    /\ action_results' = outcome
    /\ pc' = "crawl"
    /\ UNCHANGED <<result, data, ret, next_action, outcome, steps,
                   service_result, response>>
    /\ Request_unchanged

\* scraper.py 98-137: the main crawl, _process_formats and the return of
\* scrape_url
MainCrawl ==
    /\ pc = "crawl"
    /\ LET r == MainCrawlResult(answers.main, options, action_results, engine)
       IN  /\ service_result' = r.value
           /\ log' = log \o r.calls
    /\ pc' = "respond"
    /\ UNCHANGED <<result, action_results, data, ret, next_action, outcome,
                   steps, response>>
    /\ Request_unchanged

\* scrape.py 96-119: the endpoint answers
Respond ==
    /\ pc = "respond"
    /\ response' = Endpoint(service_result)
    /\ pc' = "responded"
    /\ UNCHANGED <<result, action_results, data, ret, log, next_action,
                   outcome, steps, service_result>>
    /\ Request_unchanged

NextRequest ==
    \/ CallScraper
    \/ CallMock
    \/ BeginScrape
    \/ OpenPage
    \/ WaitAction
    \/ ScreenshotAction
    \/ ScrapeAction
    \/ UnsupportedAction
    \/ ReturnOutcome
    \/ MainCrawl
    \/ Respond

SpecRequest == InitRequest /\ [][NextRequest]_vars

-----------------------------------------------------------------------------
(* The legacy operation: CrawlerService.get_markdown and the endpoint of    *)
(* app/api/v1/crawler.py                                                    *)

\* a crawl result as get_markdown reads it: its success and markdown
\* attributes
Crawled(success, markdown) == <<"crawled", success, markdown>>

\* one AsyncWebCrawler session of get_markdown: entering it, arun and
\* leaving it each answer or raise
LegacySession(open, arun, close) == [open |-> open, arun |-> arun, close |-> close]

\* str(e) of the AttributeError raised by reading attr of obj
NoAttribute(obj, attr) ==
    "'" \o obj \o "' object has no attribute '" \o attr \o "'"

\* result.success and result.markdown, as a truth value, or the exception
\* of an attribute read
MarkdownTest(res) ==
    IF res = None THEN Raises(NoAttribute("NoneType", "success"))
    ELSE IF res[2] = Absent
    THEN Raises(NoAttribute("CrawlResult", "success"))
    ELSE IF ~Truthy(res[2]) THEN Ok(FALSE)
    ELSE IF res[3] = Absent
    THEN Raises(NoAttribute("CrawlResult", "markdown"))
    ELSE Ok(Truthy(res[3]))

\* lines 11-14: what the body of the session returns for the result of arun
MarkdownReturn(res) ==
    IF IsRaise(MarkdownTest(res)) THEN MarkdownTest(res)
    ELSE IF Val(MarkdownTest(res))
    THEN Ok(Dict(<< <<"markdown", res[3]>> >>))
    ELSE Ok(Dict(<< <<"markdown", Str("No markdown content available")>> >>))

\* lines 16-17: {"error": f"Failed to crawl URL: {str(e)}"}
CrawlError(e) == Dict(<< <<"error", Str("Failed to crawl URL: " \o e)>> >>)

\* a handler that lets the exception through
CrawlFailure_Reraise(e) == Raises(e)

\* lines 16-17: the handler of get_markdown
CrawlFailure(e) == CrawlError(e)

\* lines 8-17 once the session is entered: arun, the return of the body,
\* leaving the session, and the handler for whatever raised; an exception
\* of leaving the session replaces the one that was in flight
CrawlAndReturn(session) ==
    IF IsRaise(session.close) THEN CrawlFailure(Val(session.close))
    ELSE IF IsRaise(session.arun) THEN CrawlFailure(Val(session.arun))
    ELSE IF IsRaise(MarkdownReturn(Val(session.arun)))
    THEN CrawlFailure(Val(MarkdownReturn(Val(session.arun))))
    ELSE Val(MarkdownReturn(Val(session.arun)))

\* crawler.py 9-12: the endpoint returns what the service returned, and
\* answers 500 with str(e) when the service raised
LegacyEndpoint(res) ==
    IF IsRaise(res)
    THEN HttpError(HTTPException(500, Str(Val(res))))
    ELSE HttpOk(res)

CrawlResults ==
    { Crawled(s, m) :
        s \in {PyBool(TRUE), PyBool(FALSE), None, Absent},
        m \in {Str("# Example Domain"), Str(""), None, Absent} }

\* the sessions checked: one that cannot be entered, and every arun answer
\* with a session that closes or fails to close
LegacySessions ==
    { LegacySession(Raises("Browser closed"), Ok(None), Ok(None)) }
    \cup
    { LegacySession(Ok("crawler"), a, c) :
        a \in { Raises("Connection error"), Raises("Navigation timeout"),
                Ok(None) }
              \cup { Ok(r) : r \in CrawlResults },
        c \in { Ok(None), Raises("Browser crashed") } }

\* one POST /v1/getmarkdown
InitGetMarkdown ==
    /\ answers \in LegacySessions
    /\ options = [formats |-> <<>>, json_options |-> None, actions |-> None]
    /\ service = <<"CrawlerService">>
    /\ engine = BaseEngine
    /\ result = NoResult
    /\ action_results = None
    /\ pc = "getmarkdown"
    /\ i = 1
    /\ data = MinimalRecord
    /\ ret = Running
    /\ log = <<>>
    /\ next_action = 1
    /\ outcome = ActionResult(<<>>, <<>>)
    /\ steps = <<>>
    /\ service_result = None
    /\ response = None

Legacy_unchanged ==
    UNCHANGED <<result, options, action_results, engine, i, data, ret,
                answers, next_action, outcome, steps, service>>

\* crawler.py 9-10: the endpoint awaits CrawlerService.get_markdown
CallGetMarkdown ==
    /\ pc = "getmarkdown"
    /\ pc' = "get_markdown"
    /\ UNCHANGED <<log, service_result, response>>
    /\ Legacy_unchanged

\* crawler_service.py 7-8 and 16-17: the session is entered, or the handler
\* returns the error of entering it
EnterSession ==
    /\ pc = "get_markdown"
    /\ IF IsRaise(answers.open)
       THEN /\ log' = log \o <<Call("open_failed", "get_markdown")>>
            /\ service_result' = CrawlFailure(Val(answers.open))
            /\ pc' = "answer"
       ELSE /\ log' = log \o <<Call("open", "get_markdown")>>
            /\ service_result' = service_result
            /\ pc' = "crawling"
    /\ UNCHANGED response
    /\ Legacy_unchanged

\* crawler_service.py 9-17: arun, the return, and the session left
CrawlMarkdown ==
    /\ pc = "crawling"
    /\ log' = log \o <<Call("crawler.arun", "get_markdown"),
                       Call("close", "get_markdown")>>
    /\ service_result' = CrawlAndReturn(answers)
    /\ pc' = "answer"
    /\ UNCHANGED response
    /\ Legacy_unchanged

\* crawler.py 9-12: the endpoint answers
AnswerMarkdown ==
    /\ pc = "answer"
    /\ response' = LegacyEndpoint(service_result)
    /\ pc' = "answered"
    /\ UNCHANGED <<log, service_result>>
    /\ Legacy_unchanged

NextGetMarkdown ==
    \/ CallGetMarkdown
    \/ EnterSession
    \/ CrawlMarkdown
    \/ AnswerMarkdown

SpecGetMarkdown == InitGetMarkdown /\ [][NextGetMarkdown]_vars

-----------------------------------------------------------------------------
(* Vocabulary of the properties *)

Done == pc \in {"returned", "handled"}

\* the record as the caller sees it once _process_formats has ended, and
\* the local record while the loop runs
Record == IF Done THEN ret.value ELSE data

\* the entries of options.formats whose iteration has run
Processed == IF pc = "metadata" THEN {} ELSE 1..(i - 1)

Requested(fmt) == \E n \in DOMAIN options.formats : options.formats[n] = fmt
WasProcessed(fmt) == \E n \in Processed : options.formats[n] = fmt

FormatFields == {"markdown", "html", "raw_html", "links", "json", "screenshot"}
AllUnset(r) ==
    /\ r.markdown = None /\ r.html = None /\ r.raw_html = None
    /\ r.links = None /\ r.json = None /\ r.screenshot = None

\* an exception is raised while the metadata block is assembled: an accessor
\* raises, or a metadata value has a type its field rejects
MetadataFails ==
    /\ result.present
    /\ \/ IsRaise(result.metadata)
       \/ IsRaise(result.url)
       \/ /\ Tag(result.metadata) = "dict"
          /\ \E n \in 1..Len(result.metadata[2]) :
                LET k == result.metadata[2][n][1]
                    v == result.metadata[2][n][2]
                IN  \/ k \in {"keywords", "og:locale:alternate"} /\ Tag(v) # "list"
                    \/ k \in {"title", "description", "language", "robots",
                              "og:title", "og:description", "og:url",
                              "og:image", "og:site_name"} /\ Tag(v) # "str"

-----------------------------------------------------------------------------
(* C3: _process_formats never raises: it always ends by returning a record, *)
(* and when an exception occurs while the metadata block is assembled the   *)
(* record returned has status_code 500, source_url "" and every format      *)
(* field unset.                                                             *)
C3_NeverRaises ==
    /\ ret.kind # "raised"
    /\ Done => ret.kind = "returned"
    /\ (Done /\ MetadataFails) =>
          /\ ret.value.metadata.status_code = 500
          /\ ret.value.metadata.source_url = ""
          /\ AllUnset(ret.value)

\* a call with formats requested whose metadata block raised has returned
C3_Witness ==
    /\ pc = "handled" /\ MetadataFails
    /\ Requested(<<"markdown">>) /\ Requested(<<"links">>)
    /\ ret.kind = "returned"

-----------------------------------------------------------------------------
(* What the engine exposes, read off the inputs *)

\* an accessor yields data: it is there, does not raise, and is not None
HasData(v) == v # Absent /\ v # None /\ ~IsRaise(v)

\* the accessor read for a field: the first one when the result has it,
\* else the second
Exposed(first, second) == IF first # Absent THEN first ELSE second

MarkdownExposed == HasData(Exposed(result.markdown, result.to_markdown))
HtmlExposed == HasData(Exposed(result.content, result.html))
RawHtmlExposed == HasData(Exposed(result.raw_content, result.raw_html))
LinksExposed == HasData(result.links) /\ Truthy(result.links)

SupportedFormats ==
    { <<"markdown">>, <<"html">>, <<"rawHtml">>, <<"links">>, <<"json">>,
      <<"screenshot">>, <<"screenshot", "@fullPage">> }

ScreenshotFormats == { <<"screenshot">>, <<"screenshot", "@fullPage">> }

\* the format carries the @fullPage suffix
HasFullPageSuffix(fmt) == Len(fmt) > 0 /\ fmt[Len(fmt)] = "@fullPage"

\* the rule of fmt raises: an accessor it reads, or to_markdown(), raises
RuleRaises(fmt) ==
    /\ result.present
    /\ \/ /\ fmt = <<"markdown">>
          /\ IsRaise(Exposed(result.markdown, result.to_markdown))
       \/ /\ fmt = <<"links">>
          /\ IsRaise(result.links)

\* the call ends in the top-level except block
TopFailure ==
    \/ MetadataFails
    \/ \E n \in DOMAIN options.formats : RuleRaises(options.formats[n])

\* every capture method raises or yields nothing
CaptureFails(full_page) ==
    _take_screenshot("", full_page, engine).value = ""

\* key k is in json_options
SpecHas(k) ==
    Tag(options.json_options) = "dict" /\ HasKey(options.json_options, k)

\* the structured extraction fails: the result has no content accessor, or
\* the extraction call of the branch taken raises or cannot be made
ExtractionFails ==
    \/ result.content = Absent
    \/ /\ SpecHas("schema")
       /\ \/ IsRaise(result.extract_structured)
          \/ /\ result.extract_structured = Absent
             /\ \/ engine.open = "raises"
                \/ engine.extract_structured = Absent
                \/ IsRaise(engine.extract_structured)
    \/ /\ ~SpecHas("schema")
       /\ SpecHas("prompt")
       /\ \/ IsRaise(result.extract_with_prompt)
          \/ /\ result.extract_with_prompt = Absent
             /\ \/ engine.open = "raises"
                \/ engine.extract_with_prompt = Absent
                \/ IsRaise(engine.extract_with_prompt)

-----------------------------------------------------------------------------
-----------------------------------------------------------------------------
\* the field a format's rule writes
FieldOf(fmt) ==
    CASE fmt = <<"markdown">> -> "markdown"
      [] fmt = <<"html">> -> "html"
      [] fmt = <<"rawHtml">> -> "raw_html"
      [] fmt = <<"links">> -> "links"
      [] fmt = <<"json">> -> "json"
      [] OTHER -> "screenshot"

\* the rule of a requested format fails: an accessor or to_markdown()
\* raises, the capture fails, or the structured extraction fails
FailsLocally(fmt) ==
    \/ RuleRaises(fmt)
    \/ /\ fmt \in ScreenshotFormats
       /\ NoActionScreenshot(action_results)
       /\ CaptureFails(HasFullPageSuffix(fmt))
    \/ /\ fmt = <<"json">> /\ result.present
       /\ Truthy(options.json_options)
       /\ ExtractionFails

\* formats without every entry equal to fmt
Without(formats, fmt) ==
    LET Keep(x) == x # fmt IN SelectSeq(formats, Keep)

(* C2 as claimed: when the rule of a requested format fails, only its field *)
(* is left unset (or empty), and the other format fields, the metadata      *)
(* block and the attached action outcome are those of the same call         *)
(* without that format.                                                     *)
C2_Original ==
    Done =>
      \A n \in DOMAIN options.formats :
        LET fmt == options.formats[n]
            other == _process_formats(
                         result,
                         [options EXCEPT !.formats = Without(@, fmt)],
                         action_results, engine).ret.value
        IN  FailsLocally(fmt) =>
              /\ \A f \in FormatFields \ {FieldOf(fmt)} : Record[f] = other[f]
              /\ Record[FieldOf(fmt)] \in {None, Str(""), Dict(<<>>)}
              /\ Record.metadata = other.metadata
              /\ Record.actions = other.actions

-----------------------------------------------------------------------------
(* C4 as claimed: a format string that is not one of the seven supported    *)
(* ones is ignored: as long as only such entries have been processed, no    *)
(* field of the record is populated and no engine call has been made.       *)
C4_Original ==
    (\A n \in Processed : options.formats[n] \notin SupportedFormats)
        => AllUnset(data) /\ log = <<>>

-----------------------------------------------------------------------------
\* the links field the claim gives for a links accessor
LinksExpected(links) ==
    IF links \in {Absent, None} \/ ~Truthy(links) THEN List(<<>>)
    ELSE IF Tag(links) = "dict"
    THEN List([n \in 1..Len(links[2]) |-> links[2][n][2]])
    ELSE links

(* C5: once the links format of a present result has been processed, the    *)
(* links field is the list of a mapping's values in insertion order, a      *)
(* non-empty list unchanged, and the empty list (never unset) when the      *)
(* accessor is absent, None or empty; so it is in the record returned by    *)
(* `return data`.                                                           *)
C5_Links ==
    (pc \in {"formats", "returned"} /\ WasProcessed(<<"links">>)
        /\ result.present)
        => Record.links = LinksExpected(result.links)

\* a record returned with the values of a mapping in insertion order
C5_Witness ==
    /\ pc = "returned" /\ Requested(<<"links">>)
    /\ Tag(result.links) = "dict" /\ Truthy(result.links)
    /\ Record.links = List(<<"u2", "u1">>)

\* a record returned with links [] for a result without a link accessor
C5_WitnessAbsent ==
    /\ pc = "returned" /\ Requested(<<"links">>)
    /\ result.present /\ result.links = Absent
    /\ Record.links = List(<<>>)

-----------------------------------------------------------------------------
\* the calls of _take_screenshot made so far, and the capture calls of the
\* engine, each by its full_page argument
Invocations ==
    LET IsInvocation(c) == c.op = "_take_screenshot"
    IN  SelectSeq(log, IsInvocation)

CaptureOps == {"crawler.screenshot", "result.screenshot"}

\* the processed entries that begin with "screenshot", in order
ScreenshotEntries ==
    LET IsShot(f) == StartsWith(f, <<"screenshot">>)
    IN  SelectSeq(SubSeq(options.formats, 1, i - 1), IsShot)

ActionsHoldScreenshot ==
    action_results # None /\ Len(screenshots(action_results)) > 0

(* C6: with screenshot or screenshot@fullPage requested, a capture is       *)
(* invoked for the format only if the action outcome is absent or holds no  *)
(* screenshot: when it holds one, no session is opened, no capture is made  *)
(* and the screenshot field stays unset; otherwise one capture is invoked   *)
(* per such format, in order, with full_page true exactly when the format   *)
(* carries the @fullPage suffix, and that flag is the one every capture     *)
(* call of the engine gets.                                                 *)
C6_ActionsTakePrecedence ==
    (pc # "metadata"
        /\ \A n \in 1..Len(ScreenshotEntries) :
              ScreenshotEntries[n] \in ScreenshotFormats)
    =>
      /\ ActionsHoldScreenshot =>
            /\ log = <<>>
            /\ data.screenshot = None
            /\ Record.screenshot = None
      /\ ~ActionsHoldScreenshot =>
            /\ Len(Invocations) = Len(ScreenshotEntries)
            /\ \A n \in 1..Len(Invocations) :
                  Invocations[n].arg =
                      FullPageArg(HasFullPageSuffix(ScreenshotEntries[n]))
            /\ \A k \in DOMAIN log :
                  log[k].op \in CaptureOps =>
                      \E j \in 1..(k - 1) :
                          /\ log[j].op = "_take_screenshot"
                          /\ log[j].arg = log[k].arg
                          /\ \A m \in (j + 1)..(k - 1) :
                                log[m].op # "_take_screenshot"

\* a record returned with the screenshot formats requested and a screenshot
\* already in the action outcome
C6_Witness ==
    /\ pc = "returned" /\ ActionsHoldScreenshot
    /\ Requested(<<"screenshot">>) /\ Requested(<<"screenshot", "@fullPage">>)
    /\ Record.screenshot = None /\ log = <<>>

\* a full-page capture made for screenshot@fullPage
C6_WitnessFullPage ==
    /\ pc = "returned" /\ ~ActionsHoldScreenshot
    /\ Requested(<<"screenshot", "@fullPage">>)
    /\ \E k \in DOMAIN log : log[k] = Call("crawler.screenshot", "full_page=True")

-----------------------------------------------------------------------------
(* C7 as claimed: with a screenshot format processed, no screenshot in the  *)
(* action outcome and every capture failing, the screenshot field is left   *)
(* unset.                                                                   *)
C7_Original ==
    (pc \in {"formats", "returned"}
        /\ WasProcessed(<<"screenshot">>)
        /\ ~ActionsHoldScreenshot
        /\ CaptureFails(TRUE) /\ CaptureFails(FALSE))
    => Record.screenshot = None

-----------------------------------------------------------------------------
SchemaOps == {"result.extract_structured", "crawler.extract_structured"}
PromptOps == {"result.extract_with_prompt", "crawler.extract_with_prompt"}

InLog(ops) == \E k \in DOMAIN log : log[k].op \in ops

Count(ops) == Cardinality({k \in DOMAIN log : log[k].op \in ops})

JsonProcessed ==
    /\ WasProcessed(<<"json">>) /\ result.present
    /\ Truthy(options.json_options)

\* the extraction method of a branch can be called: the result has it, or
\* a new session opens and the crawler has it
Callable(own, crawlers) ==
    own # Absent \/ (engine.open = "ok" /\ crawlers # Absent)

(* C8: with schema in json_options only schema-based extraction is ever     *)
(* invoked, prompt present or not; with prompt and no schema only           *)
(* prompt-based extraction; never both in one request, and one extraction   *)
(* at most for each json entry processed.  The branch chosen is taken: its  *)
(* extraction is invoked whenever there is content and a method to call.    *)
C8_OneBranch ==
    /\ SpecHas("schema") => ~InLog(PromptOps)
    /\ ~SpecHas("schema") => ~InLog(SchemaOps)
    /\ ~SpecHas("prompt") => ~InLog(PromptOps)
    /\ ~(InLog(SchemaOps) /\ InLog(PromptOps))
    /\ Count(SchemaOps \cup PromptOps)
          <= Cardinality({n \in Processed : options.formats[n] = <<"json">>})
    /\ (JsonProcessed /\ result.content # Absent /\ SpecHas("schema")
          /\ Callable(result.extract_structured, engine.extract_structured))
          => InLog(SchemaOps)
    /\ (JsonProcessed /\ result.content # Absent /\ ~SpecHas("schema")
          /\ SpecHas("prompt")
          /\ Callable(result.extract_with_prompt, engine.extract_with_prompt))
          => InLog(PromptOps)

\* a record returned after a schema-based extraction, with both keys given
C8_Witness ==
    /\ pc = "returned" /\ JsonProcessed
    /\ SpecHas("schema") /\ SpecHas("prompt")
    /\ InLog(SchemaOps) /\ ~InLog(PromptOps)

-----------------------------------------------------------------------------
\* the top-level except block was entered from the json rule
JsonRuleRaised ==
    /\ pc = "handled" /\ ~MetadataFails
    /\ options.formats[i] = <<"json">>

(* C9 as claimed: with json processed for a present result and neither      *)
(* schema nor prompt in json_options, empty or missing json_options         *)
(* included, the json field is the empty mapping.                           *)
C9_Original ==
    (pc \in {"formats", "returned"} /\ WasProcessed(<<"json">>)
        /\ result.present /\ ~SpecHas("schema") /\ ~SpecHas("prompt"))
    => Record.json = Dict(<<>>)

(* C9 as amended: with neither key in json_options, the json field is the   *)
(* empty mapping when json_options is non-empty and is left unset when      *)
(* json_options is empty or not given; no error is reported either way.     *)
C9_Amended ==
    /\ (pc \in {"formats", "returned"} /\ WasProcessed(<<"json">>)
          /\ result.present /\ ~SpecHas("schema") /\ ~SpecHas("prompt"))
       => IF Truthy(options.json_options)
          THEN Record.json = Dict(<<>>)
          ELSE Record.json = None
    /\ ~JsonRuleRaised

\* a record returned with json {} for a non-empty spec without either key
C9_Witness ==
    /\ pc = "returned" /\ Requested(<<"json">>) /\ result.present
    /\ options.json_options = Dict(<< <<"model", "M">> >>)
    /\ Record.json = Dict(<<>>)

\* a record returned with json unset for json requested without a spec
C9_WitnessUnset ==
    /\ pc = "returned" /\ Requested(<<"json">>) /\ result.present
    /\ options.json_options = None
    /\ Record.json = None

-----------------------------------------------------------------------------
-----------------------------------------------------------------------------
\* the fields of ScrapedMetadata read from the engine's mapping, each with
\* the key it is read from
MetadataKeys ==
    [title |-> "title", description |-> "description",
     language |-> "language", keywords |-> "keywords", robots |-> "robots",
     og_title |-> "og:title", og_description |-> "og:description",
     og_url |-> "og:url", og_image |-> "og:image",
     og_site_name |-> "og:site_name",
     og_locale_alternate |-> "og:locale:alternate"]

ListFields == {"keywords", "og_locale_alternate"}

\* the engine result exposes a metadata mapping
ExposesMapping ==
    result.present /\ ~IsRaise(result.metadata) /\ Tag(result.metadata) = "dict"

\* what the claim expects of a metadata field: the value of its key, and
\* unset (the empty list for the two list fields) without one
ExpectedField(f) ==
    IF ExposesMapping /\ HasKey(result.metadata, MetadataKeys[f])
    THEN Get(result.metadata, MetadataKeys[f], None)
    ELSE IF f \in ListFields THEN List(<<>>) ELSE None

MetadataPopulated(r) ==
    \A f \in DOMAIN MetadataKeys : r.metadata[f] = ExpectedField(f)

(* C11 as claimed: in every record _process_formats returns, whatever the   *)
(* formats, each metadata field has the value of its key in the engine's    *)
(* metadata mapping, and without the key it is unset, keywords and          *)
(* og_locale_alternate being the empty list.                                *)
C11_Original == Done => MetadataPopulated(Record)

(* C11 as amended: the record returned by `return data` has each metadata   *)
(* field at the value of its key, unset without the key, keywords and       *)
(* og_locale_alternate being [] without theirs; the record returned by the  *)
(* top-level except block has every metadata field unset, keywords          *)
(* included, og_locale_alternate [], source_url "" and status_code 500.     *)
C11_Amended ==
    /\ pc = "returned" => MetadataPopulated(Record)
    /\ pc = "handled" =>
          /\ \A f \in DOMAIN MetadataKeys \ {"og_locale_alternate"} :
                Record.metadata[f] = None
          /\ Record.metadata.og_locale_alternate = List(<<>>)
          /\ Record.metadata.source_url = ""
          /\ Record.metadata.status_code = 500

\* a record returned for two formats with the whole mapping read
C11_Witness ==
    /\ pc = "returned" /\ Len(options.formats) = 2
    /\ result.metadata = FullMetadata
    /\ Record.metadata.og_title = Str("Example OG Title")
    /\ Record.metadata.keywords = List(<<"example", "domain">>)

\* a record returned for no format of a result without a mapping
C11_WitnessDefaults ==
    /\ pc = "returned" /\ Len(options.formats) = 0
    /\ result.present /\ result.metadata = Absent
    /\ Record.metadata.keywords = List(<<>>)
    /\ Record.metadata.og_locale_alternate = List(<<>>)
    /\ Record.metadata.title = None

-----------------------------------------------------------------------------
\* the engine result exposes an integer status code
ExposesIntStatus ==
    /\ result.present
    /\ result.status_code # Absent
    /\ Tag(result.status_code) = "int"

(* C12: the metadata status_code of a normally assembled record is the      *)
(* engine result's status code when the result exposes an integer one, and  *)
(* 200 when it exposes none or one that is not an integer.                  *)
C12_StatusCode ==
    pc \in {"formats", "returned"} =>
        Record.metadata.status_code =
            IF ExposesIntStatus THEN result.status_code[2] ELSE 200

\* a record returned with the 404 of the engine result
C12_Witness ==
    /\ pc = "returned"
    /\ result.status_code = PyInt(404)
    /\ Record.metadata.status_code = 404

\* a record returned with 200 for a status code given as a string
C12_WitnessDefault ==
    /\ pc = "returned"
    /\ result.status_code = Str("404")
    /\ Record.metadata.status_code = 200

-----------------------------------------------------------------------------
(* Vocabulary of the properties of a request *)

\* the action list, empty when the request carries none
Actions == IF Truthy(options.actions) THEN Val(options.actions) ELSE <<>>

\* _execute_actions has returned
SequencerReturned ==
    Truthy(options.actions) /\ pc \in {"crawl", "respond", "responded"}

\* the page session of the sequencer was entered and its arun returned
PageOpened == ~IsRaise(answers.page.open) /\ ~IsRaise(answers.page.arun)

\* the loop ran to its end
LoopCompleted == SequencerReturned /\ PageOpened

IsPrefix(s, t) == Len(s) <= Len(t) /\ SubSeq(t, 1, Len(s)) = s

\* the number of calls op among calls
Ops(calls, op) == Cardinality({n \in DOMAIN calls : calls[n].op = op})

\* every session entered among calls is left among them, none is left
\* before it is entered, and a session that could not be entered is not left
SessionsClosed(calls) ==
    /\ Ops(calls, "open") = Ops(calls, "close")
    /\ \A n \in DOMAIN calls :
          Ops(SubSeq(calls, 1, n), "close") <= Ops(SubSeq(calls, 1, n), "open")

\* the engine calls of the first n executed actions, in order
RECURSIVE CallsOfSteps(_)
CallsOfSteps(n) ==
    IF n = 0 THEN <<>> ELSE CallsOfSteps(n - 1) \o steps[n].calls

(* C13: _execute_actions runs the action list in list order, one action at  *)
(* a time: the n-th action executed is the n-th entry of the list, it       *)
(* starts from the accumulator the action before it left, every engine call *)
(* of an action comes after all calls of the actions before it, every       *)
(* session an action opens is closed before the next action starts, and     *)
(* each action only appends, so the screenshots and the scrapes are in the  *)
(* relative order of the actions that produced them.                        *)
C13_ListOrder ==
    /\ Len(steps) <= Len(Actions)
    /\ pc = "actions" => next_action = Len(steps) + 1
    /\ \A n \in DOMAIN steps :
          /\ steps[n].index = n
          /\ steps[n].type = Actions[n].type
          /\ SessionsClosed(steps[n].calls)
          /\ steps[n].before =
                IF n = 1 THEN ActionResult(<<>>, <<>>) ELSE steps[n - 1].after
          /\ IsPrefix(screenshots(steps[n].before), screenshots(steps[n].after))
          /\ IsPrefix(scrapes(steps[n].before), scrapes(steps[n].after))
    /\ Len(steps) > 0 => outcome = steps[Len(steps)].after
    /\ pc = "actions" =>
          log = <<Call("open", "_execute_actions"),
                  Call("crawler.arun", "_execute_actions")>>
                \o CallsOfSteps(Len(steps))
    /\ SequencerReturned => action_results = outcome

\* three actions have run, a screenshot between two scrapes, and the two
\* records are in the order of their actions
C13_Witness ==
    /\ SequencerReturned /\ Len(steps) = 3
    /\ steps[1].type = "scrape" /\ steps[2].type = "screenshot"
    /\ steps[3].type = "scrape"
    /\ Len(screenshots(action_results)) = 1
    /\ Len(scrapes(action_results)) = 2
    /\ scrapes(action_results)[1].html = Str("<html>after</html>")
    /\ scrapes(action_results)[2].html = Str("Error: Connection error")

-----------------------------------------------------------------------------
\* a capture of the engine succeeds: the session is entered, no call made
\* raises, and the capture method reached yields an image
YieldsImage(shot) == ~IsRaise(shot) /\ Tag(shot) = "bytes" /\ Truthy(shot)

\* the image of crawler.screenshot, and the one of the crawl result,
\* for a capture that is not full-page
CrawlerImage(eng) ==
    IF eng.crawler_screenshot # Absent
    THEN Invoke(eng.crawler_screenshot, FALSE)
    ELSE Absent

ResultImage(eng) ==
    IF eng.arun # "ok" \/ eng.page_screenshot = Absent THEN Absent
    ELSE IF Tag(eng.page_screenshot) = "method"
    THEN Invoke(eng.page_screenshot, FALSE)
    ELSE eng.page_screenshot

CaptureSucceeds(eng) ==
    /\ eng.open = "ok"
    /\ IF eng.crawler_screenshot # Absent
       THEN YieldsImage(CrawlerImage(eng))
       ELSE YieldsImage(ResultImage(eng))

\* every engine call of the n-th action succeeds
ActionSucceeds(n) ==
    CASE Actions[n].type = "screenshot" -> CaptureSucceeds(answers.steps[n])
      [] Actions[n].type = "scrape" -> ScrapeError(answers.steps[n]) = None
      [] OTHER -> TRUE

EveryCallSucceeds == PageOpened /\ \A n \in DOMAIN Actions : ActionSucceeds(n)

NumActions(type) ==
    Cardinality({n \in DOMAIN Actions : Actions[n].type = type})

(* C14: when every engine call of the sequencer succeeds, each screenshot   *)
(* action adds exactly one screenshot and each scrape action exactly one    *)
(* scrape record, so the outcome holds as many screenshots as the list has  *)
(* screenshot actions and as many records as it has scrape actions; an      *)
(* action of any other type leaves the accumulator as it found it, makes no *)
(* engine call, and the actions after it run: the loop ends only after the  *)
(* last entry.                                                              *)
C14_OnePerAction ==
    /\ \A n \in DOMAIN steps :
          LET s == steps[n]
              shots == Len(screenshots(s.after)) - Len(screenshots(s.before))
              records == Len(scrapes(s.after)) - Len(scrapes(s.before))
          IN  /\ s.type \notin {"screenshot", "scrape"} =>
                    s.after = s.before /\ s.calls = <<>>
              /\ (EveryCallSucceeds /\ s.type = "screenshot") =>
                    shots = 1 /\ records = 0
              /\ (EveryCallSucceeds /\ s.type = "scrape") =>
                    shots = 0 /\ records = 1
    /\ LoopCompleted => Len(steps) = Len(Actions)
    /\ (SequencerReturned /\ EveryCallSucceeds) =>
          /\ Len(screenshots(action_results)) = NumActions("screenshot")
          /\ Len(scrapes(action_results)) = NumActions("scrape")

\* click, screenshot, scrape with every call succeeding: one screenshot and
\* one record
C14_Witness ==
    /\ SequencerReturned /\ EveryCallSucceeds /\ Len(steps) = 3
    /\ steps[1].type = "click" /\ steps[2].type = "screenshot"
    /\ steps[3].type = "scrape"
    /\ Len(screenshots(action_results)) = 1
    /\ Len(scrapes(action_results)) = 1

-----------------------------------------------------------------------------
\* the session of a scrape action returns content: a truthy result whose
\* content accessor holds a value
ReturnsContent(session) ==
    /\ ScrapeError(session) = None
    /\ Truthy(Val(session.arun))
    /\ HasData(Val(session.arun)[2])

\* the main crawl itself succeeds: its session is entered, arun returns a
\* truthy result and the result does not report a failure
MainCrawlSucceeds ==
    /\ ~IsRaise(answers.main.open)
    /\ ~IsRaise(answers.main.arun)
    /\ Val(answers.main.arun).present
    /\ answers.main.success # Absent => Truthy(answers.main.success)

\* scrape_url of ScraperService has returned
ScrapeUrlReturned ==
    service = ScraperService /\ pc \in {"respond", "responded"}

Reports(success) ==
    /\ Tag(service_result) = "dict"
    /\ Get(service_result, "success", None) = PyBool(success)

(* C15 as claimed: a scrape action whose session raises E appends the       *)
(* record {url, html: "Error: E"}, one whose session returns no content     *)
(* appends {url, html: ""}, the actions after it run, and the request       *)
(* reports success true as it does without the failure, that is whenever    *)
(* the main crawl succeeds.                                                 *)
C15_Original ==
    /\ \A n \in DOMAIN steps :
          steps[n].type = "scrape" =>
            LET session == answers.steps[n]
                added(html) ==
                    scrapes(steps[n].after) =
                        Append(scrapes(steps[n].before),
                               [url |-> Url, html |-> html])
            IN  /\ ScrapeError(session) # None =>
                      added(Str("Error: " \o Val(ScrapeError(session))))
                /\ (ScrapeError(session) = None /\ ~ReturnsContent(session)) =>
                      added(Str(""))
    /\ LoopCompleted => Len(steps) = Len(Actions)
    /\ (ScrapeUrlReturned /\ MainCrawlSucceeds) => Reports(TRUE)

-----------------------------------------------------------------------------
(* C16 as claimed: a wait action suspends the sequence for exactly the      *)
(* duration it gives, whatever the duration, and for 1000 ms only when it   *)
(* gives none; it makes no engine call, cannot fail and leaves the          *)
(* accumulator as it found it.                                              *)
C16_Original ==
    \A n \in DOMAIN steps :
        steps[n].type = "wait" =>
          /\ steps[n].slept =
                IF Actions[n].milliseconds # None
                THEN <<Val(Actions[n].milliseconds)>>
                ELSE <<1000>>
          /\ steps[n].calls = <<>>
          /\ steps[n].after = steps[n].before

-----------------------------------------------------------------------------
\* the non-full-page image a capture yields, Absent when the capture fails
\* or yields nothing
Captured(eng) ==
    IF eng.open # "ok" THEN Absent
    ELSE IF YieldsImage(CrawlerImage(eng)) THEN CrawlerImage(eng)
    ELSE IF YieldsImage(ResultImage(eng)) THEN ResultImage(eng)
    ELSE Absent

\* the session of _take_screenshot is entered by the step itself, before
\* any capture, and left by it
FreshSession(calls) ==
    /\ Len(calls) >= 2
    /\ \/ calls = <<calls[1], Call("open_failed", "_take_screenshot")>>
       \/ /\ calls[2] = Call("open", "_take_screenshot")
          /\ calls[Len(calls)] = Call("close", "_take_screenshot")
          /\ Ops(calls, "open") = 1

(* C17: a screenshot action calls _take_screenshot with full_page False,    *)
(* every capture it makes is not full-page and is made in a session the     *)
(* action itself opens and closes; when the capture fails or yields nothing *)
(* the accumulator is left as it was, screenshots and scrapes, and when it  *)
(* yields an image the base64 text of that image is appended; in both       *)
(* cases the actions after it run.                                          *)
C17_ScreenshotAction ==
    /\ \A n \in DOMAIN steps :
          steps[n].type = "screenshot" =>
            LET s == steps[n]
                image == Captured(answers.steps[n])
            IN  /\ s.calls[1] = Call("_take_screenshot", "full_page=False")
                /\ FreshSession(s.calls)
                /\ \A c \in DOMAIN s.calls :
                      s.calls[c].op \in CaptureOps =>
                          s.calls[c].arg = "full_page=False"
                /\ IF image = Absent
                   THEN s.after = s.before
                   ELSE s.after =
                          AppendScreenshot(s.before, Val(b64encode(image)))
    /\ LoopCompleted => Len(steps) = Len(Actions)

\* a screenshot action whose captures raise, followed by a scrape action
\* that runs
C17_Witness ==
    /\ LoopCompleted /\ Len(steps) = 2
    /\ steps[1].type = "screenshot"
    /\ IsRaise(CrawlerImage(answers.steps[1]))
    /\ steps[1].after = ActionResult(<<>>, <<>>)
    /\ steps[2].type = "scrape"
    /\ Len(scrapes(action_results)) = 1
    /\ screenshots(action_results) = <<>>

-----------------------------------------------------------------------------
\* the exception the engine raises during the main crawl, None without one
MainCrawlError ==
    IF IsRaise(answers.main.open) THEN answers.main.open
    ELSE IF IsRaise(answers.main.arun) THEN answers.main.arun
    ELSE None

\* the texts that can precede a message in a detail
DetailPrefixes == {"", "500: "}

\* text contains message, at the end of it
ContainsMessage(text, message) ==
    \E p \in DetailPrefixes : text = p \o message

Detail == Get(response.json, "detail", None)

(* C18: when the engine raises E during the main crawl, scrape_url does not *)
(* raise: it returns {success: false, error: E} and no data; and the        *)
(* endpoint answers 500 with a detail that contains E.                      *)
C18_TopLevelRaise ==
    (ScrapeUrlReturned /\ MainCrawlError # None) =>
        /\ service_result = Failure(Str(Val(MainCrawlError)))
        /\ ~HasKey(service_result, "data")
        /\ pc = "responded" =>
              /\ response.status_code = 500
              /\ HasKey(response.json, "detail")
              /\ Tag(Detail) = "str"
              /\ ContainsMessage(Val(Detail), Val(MainCrawlError))

\* arun of the main crawl raised and the endpoint has answered 500
C18_Witness ==
    /\ pc = "responded" /\ service = ScraperService
    /\ answers.main.arun = Raises("Connection error")
    /\ response.status_code = 500
    /\ Detail = Str("500: Connection error")

-----------------------------------------------------------------------------
\* the service returned a mapping whose success is true
ServiceSucceeded ==
    /\ Tag(service_result) = "dict"
    /\ Get(service_result, "success", PyBool(FALSE)) = PyBool(TRUE)

\* the service returned a mapping whose success is false, with an error text
ServiceReportedError ==
    /\ Tag(service_result) = "dict"
    /\ HasKey(service_result, "success")
    /\ Get(service_result, "success", None) = PyBool(FALSE)
    /\ HasKey(service_result, "error")

(* C19 as claimed: the endpoint answers 200 with the result of the service  *)
(* unchanged exactly when the service returned a mapping whose success is   *)
(* true; for every other outcome of the service it answers 500 with a       *)
(* detail message, which is the error text of the result when the result    *)
(* is a mapping whose success is false.                                     *)
C19_Original ==
    pc = "responded" =>
        IF ServiceSucceeded
        THEN response.status_code = 200 /\ response.json = service_result
        ELSE /\ response.status_code = 500
             /\ HasKey(response.json, "detail")
             /\ Tag(Detail) = "str"
             /\ ServiceReportedError =>
                   Detail = Get(service_result, "error", None)

-----------------------------------------------------------------------------
\* the record scrape_url returned
ReturnedRecord == Get(service_result, "data", None)

\* the sessions only the sequencer opens
SequencerSessions == {"_execute_actions", "action_crawler"}

(* C20 as claimed: when the request carries a non-empty action list and     *)
(* scrape_url reports success true, the actions field of the record is the  *)
(* outcome the sequencer accumulated; when the request carries no actions,  *)
(* the actions field is unset, no action is run and the sequencer opens no  *)
(* session.                                                                 *)
C20_Original ==
    ScrapeUrlReturned =>
        IF Truthy(options.actions)
        THEN Reports(TRUE) => ReturnedRecord.actions = outcome
        ELSE /\ Reports(TRUE) => ReturnedRecord.actions = None
             /\ steps = <<>>
             /\ \A n \in DOMAIN log : log[n].arg \notin SequencerSessions

-----------------------------------------------------------------------------
\* the value a field takes from one accessor alone: the accessor's value
\* when the result has it, unset otherwise
FromAccessor(attr) == IF attr # Absent THEN attr ELSE None

\* the value a field takes from an accessor and its fallback
FromAccessors(first, second) == FromAccessor(Exposed(first, second))

\* the rule of fmt has run on a truthy result and the loop has not been left
RuleApplied(fmt) ==
    /\ pc \in {"formats", "returned"}
    /\ WasProcessed(fmt)
    /\ result.present

(* C21 as claimed: when markdown is requested the markdown field is the     *)
(* value of the result's markdown accessor if the result has one and is     *)
(* unset otherwise; likewise html from the content accessor and raw_html    *)
(* from the raw_content accessor, no other accessor or method of the result *)
(* being consulted.                                                         *)
C21_Original ==
    /\ RuleApplied(<<"markdown">>) =>
          Record.markdown = FromAccessor(result.markdown)
    /\ RuleApplied(<<"html">>) =>
          Record.html = FromAccessor(result.content)
    /\ RuleApplied(<<"rawHtml">>) =>
          Record.raw_html = FromAccessor(result.raw_content)

(* C21 as amended: once the rule of markdown has run on a truthy result,    *)
(* the markdown field is the value of the markdown accessor if the result   *)
(* has one, else what to_markdown() returns if the result has that method,  *)
(* else unset; html is read from content, else from html; raw_html from     *)
(* raw_content, else from raw_html. For a falsy result the three fields     *)
(* stay unset, and when the accessor read or to_markdown() raises the call  *)
(* ends in the top-level handler with every format field unset.             *)
C21_Amended ==
    /\ RuleApplied(<<"markdown">>) =>
          /\ ~RuleRaises(<<"markdown">>)
          /\ Record.markdown =
                FromAccessors(result.markdown, result.to_markdown)
    /\ RuleApplied(<<"html">>) =>
          Record.html = FromAccessors(result.content, result.html)
    /\ RuleApplied(<<"rawHtml">>) =>
          Record.raw_html = FromAccessors(result.raw_content, result.raw_html)
    /\ ~result.present =>
          /\ Record.markdown = None
          /\ Record.html = None
          /\ Record.raw_html = None
    /\ (Done /\ Requested(<<"markdown">>) /\ RuleRaises(<<"markdown">>)) =>
          /\ pc = "handled"
          /\ AllUnset(Record)
          /\ Record.metadata.status_code = 500

\* a record returned with the markdown of to_markdown() for a result
\* without a markdown accessor
C21_Witness ==
    /\ pc = "returned" /\ Requested(<<"markdown">>)
    /\ result.present /\ result.markdown = Absent
    /\ result.to_markdown = Str("# From to_markdown")
    /\ Record.markdown = Str("# From to_markdown")

\* a record returned with the html of the html accessor for a result
\* without a content accessor
C21_WitnessHtml ==
    /\ pc = "returned" /\ Requested(<<"html">>)
    /\ result.present /\ result.content = Absent
    /\ Record.html = Str("<html>html</html>")

\* a call that ended in the handler because to_markdown() raised
C21_WitnessRaises ==
    /\ pc = "handled" /\ Requested(<<"markdown">>)
    /\ result.markdown = Absent /\ IsRaise(result.to_markdown)
    /\ ~MetadataFails
    /\ AllUnset(Record)

-----------------------------------------------------------------------------
\* get_markdown has returned, and the endpoint has answered
MarkdownReturned == pc \in {"answer", "answered"}
MarkdownAnswered == pc = "answered"

\* the engine raises: entering the session, arun or leaving the session;
\* the exception of leaving replaces the one of arun
EngineRaises ==
    IsRaise(answers.open) \/ IsRaise(answers.close) \/ IsRaise(answers.arun)

EngineMessage ==
    IF IsRaise(answers.open) THEN Val(answers.open)
    ELSE IF IsRaise(answers.close) THEN Val(answers.close)
    ELSE Val(answers.arun)

\* what arun returned
Crawl == Val(answers.arun)

\* arun returned something that lacks an attribute get_markdown reads
ReadFails ==
    /\ ~EngineRaises
    /\ \/ Crawl = None
       \/ Crawl[2] = Absent
       \/ Truthy(Crawl[2]) /\ Crawl[3] = Absent

\* the crawl succeeded with non-empty markdown
CrawlGaveMarkdown ==
    /\ ~EngineRaises /\ ~ReadFails
    /\ Truthy(Crawl[2])
    /\ Crawl[3] \notin {None, Str("")}

KeysOf(d) == { d[2][n][1] : n \in 1..Len(d[2]) }

(* C22: get_markdown never raises and returns a mapping with exactly one    *)
(* of the keys markdown and error: the engine's markdown when the crawl     *)
(* succeeded with non-empty markdown, "No markdown content available" as    *)
(* markdown when it did not succeed or gave no markdown, and {error:        *)
(* "Failed to crawl URL: <message>"} when the engine raises (an error       *)
(* mapping too when what arun returned lacks an attribute that is read);    *)
(* the endpoint answers 200 with that mapping in every case.                *)
C22_GetMarkdown ==
    /\ ~IsRaise(service_result)
    /\ MarkdownReturned =>
          /\ Tag(service_result) = "dict"
          /\ KeysOf(service_result) \in {{"markdown"}, {"error"}}
          /\ EngineRaises =>
                service_result =
                    Dict(<< <<"error", Str("Failed to crawl URL: "
                                           \o EngineMessage)>> >>)
          /\ ReadFails => KeysOf(service_result) = {"error"}
          /\ CrawlGaveMarkdown =>
                service_result = Dict(<< <<"markdown", Crawl[3]>> >>)
          /\ (~EngineRaises /\ ~ReadFails /\ ~CrawlGaveMarkdown) =>
                service_result =
                    Dict(<< <<"markdown",
                              Str("No markdown content available")>> >>)
    /\ MarkdownAnswered =>
          /\ response.status_code = 200
          /\ response.json = service_result

\* the endpoint answered 200 with the markdown of a successful crawl
C22_Witness ==
    /\ MarkdownAnswered
    /\ answers.arun = Ok(Crawled(PyBool(TRUE), Str("# Example Domain")))
    /\ response = HttpOk(Dict(<< <<"markdown", Str("# Example Domain")>> >>))

\* the endpoint answered 200 with the placeholder for a crawl that did not
\* succeed although it carried markdown
C22_WitnessPlaceholder ==
    /\ MarkdownAnswered
    /\ answers.arun = Ok(Crawled(PyBool(FALSE), Str("# Example Domain")))
    /\ response.status_code = 200
    /\ response.json =
          Dict(<< <<"markdown", Str("No markdown content available")>> >>)

\* the endpoint answered 200 with the error of an engine that raised
C22_WitnessRaised ==
    /\ MarkdownAnswered
    /\ answers.arun = Raises("Connection error")
    /\ ~IsRaise(answers.close)
    /\ response.status_code = 200
    /\ response.json =
          Dict(<< <<"error", Str("Failed to crawl URL: Connection error")>> >>)

-----------------------------------------------------------------------------
\* the number of sessions open after the first n engine calls of the request
OpenSessions(n) ==
    Ops(SubSeq(log, 1, n), "open") - Ops(SubSeq(log, 1, n), "close")

\* the code that enters a session for the engine call c
OwnerOf(c) ==
    IF c.op = "crawler.arun" THEN c.arg
    ELSE IF c.op = "crawler.screenshot" THEN "_take_screenshot"
    ELSE "_extract_structured_data"

EngineOps ==
    {"crawler.arun", "crawler.screenshot", "crawler.extract_structured",
     "crawler.extract_with_prompt"}

\* the n-th call is made on a session its own step entered and has not
\* left, and that session has not run a crawl before
OnOwnSession(n) ==
    \E m \in 1..(n - 1) :
        /\ log[m] = Call("open", OwnerOf(log[n]))
        /\ \A k \in (m + 1)..(n - 1) :
              /\ log[k] # Call("close", OwnerOf(log[n]))
              /\ log[k] # Call("open", OwnerOf(log[n]))
              /\ log[k] # Call("crawler.arun", OwnerOf(log[n]))

\* the places where sessions are entered
SessionOwners ==
    {"_execute_actions", "action_crawler", "_take_screenshot", "scrape_url",
     "_extract_structured_data"}

C23_WitnessExtraction ==
    /\ pc = "responded" /\ service = ScraperService
    /\ \E n \in DOMAIN log :
          /\ log[n] = Call("open", "_extract_structured_data")
          /\ OpenSessions(n) = 2
    /\ OpenSessions(Len(log)) = 0

\* a request whose main session could not be entered, after a sequencer
\* whose page session failed
C23_WitnessFailure ==
    /\ pc = "responded" /\ service = ScraperService
    /\ Len(Actions) > 0 /\ ~PageOpened
    /\ OpenSessions(Len(log)) = 0
    /\ Reports(TRUE)

-----------------------------------------------------------------------------
\* the engine calls of the main crawl: its session and everything
\* _process_formats does inside it
MainCrawlStart ==
    IF \E n \in DOMAIN log : log[n].arg = "scrape_url"
    THEN CHOOSE n \in DOMAIN log :
            /\ log[n].arg = "scrape_url"
            /\ \A m \in 1..(n - 1) : log[m].arg # "scrape_url"
    ELSE Len(log) + 1

\* the sequencer is running: its page session or its loop
SequencerRunning == pc \in {"page", "actions"}

EmptyOutcome == ActionResult(<<>>, <<>>)

(* C24: in scrape_url the whole action sequence finishes before the main    *)
(* crawl session is entered, and _execute_actions never raises: it always   *)
(* hands an ActionResult to scrape_url; when its page session cannot be     *)
(* entered or its page load fails, that outcome is empty, none of the       *)
(* listed actions has run, and the main crawl and the format processing     *)
(* proceed with the empty outcome.                                          *)
C24_SequencerFirst ==
    /\ SequencerRunning => MainCrawlStart = Len(log) + 1
    /\ \A n \in DOMAIN log :
          log[n].arg \in SequencerSessions => n < MainCrawlStart
    /\ SequencerReturned =>
          /\ action_results = outcome
          /\ Tag(action_results) = "ActionResult"
          /\ Len(steps) = IF PageOpened THEN Len(Actions) ELSE 0
    /\ (SequencerReturned /\ ~PageOpened) =>
          /\ action_results = EmptyOutcome
          /\ \A n \in 1..(MainCrawlStart - 1) :
                log[n].arg = "_execute_actions"
    /\ (ScrapeUrlReturned /\ Truthy(options.actions)) =>
          /\ MainCrawlStart <= Len(log)
          /\ log[MainCrawlStart].op \in {"open", "open_failed"}
          /\ service_result =
                MainCrawlResult(answers.main, options, outcome, engine).value

\* a request whose sequencer could not load the page, with a scrape listed:
\* it did not run, and the record of the main crawl carries the empty outcome
C24_Witness ==
    /\ pc = "responded" /\ service = ScraperService
    /\ Len(Actions) = 1
    /\ Actions[1].type = "scrape"
    /\ IsRaise(answers.page.arun)
    /\ steps = <<>>
    /\ Reports(TRUE)
    /\ ReturnedRecord.actions = EmptyOutcome
    /\ ReturnedRecord.markdown # None
    /\ log[MainCrawlStart] = Call("open", "scrape_url")

\* a request whose actions all ran before the main session was entered
C24_WitnessOrder ==
    /\ pc = "responded" /\ service = ScraperService
    /\ Len(Actions) = 3 /\ Len(steps) = 3
    /\ Actions[1].type = "wait" /\ Actions[3].type = "scrape"
    /\ log[MainCrawlStart - 1] = Call("close", "_execute_actions")
    /\ Reports(TRUE)

-----------------------------------------------------------------------------
\* the set of entries of a list of formats
FormatSet(formats) == { formats[n] : n \in DOMAIN formats }

\* the lists that request the same set of formats as formats does, in any
\* order and with any entry repeated, up to one entry longer
SameSet(formats) ==
    { g \in UNION { [1..n -> FormatSet(formats)] :
                      n \in 0..(Len(formats) + 1) } :
        FormatSet(g) = FormatSet(formats) }

\* the record _process_formats returns for the call's result, action
\* outcome and engine with the formats list g
RecordFor(g) ==
    _process_formats(result, [options EXCEPT !.formats = g],
                     action_results, engine).ret.value

(* C25 as claimed: the record _process_formats returns depends only on the  *)
(* set of requested formats: for the same engine result, action outcome     *)
(* and engine answers, every permutation of the formats list and every      *)
(* repetition of its entries gives the same record, also when both          *)
(* screenshot and screenshot@fullPage are requested.                        *)
C25_Original ==
    Done => \A g \in SameSet(options.formats) : RecordFor(g) = Record

====
